---- MODULE Spec2Model ----
(***************************************************************************)
(* Model of the booking dialogue of the telemedicine receptionist:        *)
(* services/booking_handler.py (the five capture handlers and the session *)
(* store), services/calendly.py (availability check, appointment          *)
(* creation, time parsing), services/messaging.py (confirmation SMS),     *)
(* agents/receptionist_agent.py (guest validation) and app.py (the HTTP   *)
(* routes with their authentication, rate limit and error handling).      *)
(*                                                                         *)
(* Strings are sequences of one-character strings, so that stripping,     *)
(* character removal, lower-casing, splitting and pattern matching are    *)
(* computed as the code computes them.                                    *)
(***************************************************************************)
EXTENDS Integers, Sequences, FiniteSets, TLC

VARIABLES
    secure_session_data,  \* booking_handler.secure_session_data: call_sid -> session dict
    bookings,             \* per call_sid: successful create_calendly_appointment calls since the session was created
    available,            \* per call_sid: (doctor, time_text) pairs for which is_time_available returned True in this session
    turn,                 \* the webhook turn being answered: handler, form, call_sid, external calls made, response
    completed,            \* the call_sid whose booking the previous turn completed (<<>>: it completed none)
    race,                 \* two requests served by concurrent threads: the dict objects, each thread's position and locals
    appointments,         \* what the scheduling service holds: the appointments created, each with the call it was created for
    num_calls             \* per route of app.py: the calls its limits decorator counted in the current period

vars == <<secure_session_data, bookings, available, turn, completed, race, appointments, num_calls>>

\* Python's None, for optional objects (datetime, GuestInfo, booking link).
None == [none |-> TRUE]

-----------------------------------------------------------------------------
(* String primitives of Python used by the code.                           *)

Whitespace == {" ", "\t", "\n"}
Digits == {"0", "1", "2", "3", "4", "5", "6", "7", "8", "9"}
UpperCase == <<"A", "B", "C", "D", "E", "F", "G", "H", "I", "J", "K", "L", "M",
               "N", "O", "P", "Q", "R", "S", "T", "U", "V", "W", "X", "Y", "Z">>
LowerCase == <<"a", "b", "c", "d", "e", "f", "g", "h", "i", "j", "k", "l", "m",
               "n", "o", "p", "q", "r", "s", "t", "u", "v", "w", "x", "y", "z">>

\* The first index from i upwards, and the last from i downwards, that holds no whitespace.
RECURSIVE first_kept(_, _)
first_kept(s, i) == IF i <= Len(s) /\ s[i] \in Whitespace THEN first_kept(s, i + 1) ELSE i

RECURSIVE last_kept(_, _)
last_kept(s, i) == IF i >= 1 /\ s[i] \in Whitespace THEN last_kept(s, i - 1) ELSE i

\* str.strip()
strip(s) == SubSeq(s, first_kept(s, 1), last_kept(s, Len(s)))

\* re.sub(r'[chars]', '', s) and str.replace(c, '') for one-character c
remove_chars(s, chars) == SelectSeq(s, LAMBDA c : c \notin chars)

\* str.replace(old, new) for one-character old and new
replace_char(s, old, new) == [i \in 1..Len(s) |-> IF s[i] = old THEN new ELSE s[i]]

Letters == {UpperCase[i] : i \in DOMAIN UpperCase} \cup {LowerCase[i] : i \in DOMAIN LowerCase}

ToLower ==
    [c \in {UpperCase[i] : i \in DOMAIN UpperCase} |->
        LowerCase[CHOOSE i \in DOMAIN UpperCase : UpperCase[i] = c]]

lower_char(c) == IF c \in DOMAIN ToLower THEN ToLower[c] ELSE c

\* str.lower()
lower(s) == [i \in 1..Len(s) |-> lower_char(s[i])]

\* str.find(sub, start): the first index >= start where sub occurs, 0 when none
find(s, sub, start) ==
    LET at == {i \in start..(Len(s) - Len(sub) + 1) : SubSeq(s, i, i + Len(sub) - 1) = sub}
    IN  IF at = {} THEN 0 ELSE CHOOSE i \in at : \A j \in at : i <= j

\* sub in s
contains(s, sub) == find(s, sub, 1) # 0

\* str.split(sep): the parts between the non-overlapping occurrences of sep
RECURSIVE split(_, _)
split(s, sep) ==
    LET i == find(s, sep, 1)
    IN  IF i = 0 THEN <<s>>
        ELSE <<SubSeq(s, 1, i - 1)>> \o split(SubSeq(s, i + Len(sep), Len(s)), sep)

\* int() of a run of decimal digits
RECURSIVE int(_)
int(ds) ==
    IF ds = <<>> THEN 0
    ELSE 10 * int(SubSeq(ds, 1, Len(ds) - 1))
         + (CHOOSE n \in 0..9 : <<"0", "1", "2", "3", "4", "5", "6", "7", "8", "9">>[n + 1] = ds[Len(ds)])

\* re.search(r'\d+', s).group(): the first maximal run of digits, <<>> when s has no digit
first_digits(s) ==
    LET starts == {i \in 1..Len(s) : s[i] \in Digits}
    IN  IF starts = {} THEN <<>>
        ELSE LET b == CHOOSE i \in starts : \A j \in starts : i <= j
                 ends == {e \in b..Len(s) : \A k \in b..e : s[k] \in Digits}
                 e == CHOOSE x \in ends : \A y \in ends : y <= x
             IN  SubSeq(s, b, e)

-----------------------------------------------------------------------------
(* Input sanitizers.                                                        *)

Unsafe == {"<", ">", ";", "{", "}"}

\* booking_handler._sanitize_input
_sanitize_input(input_str) ==
    IF input_str = <<>> THEN <<>> ELSE remove_chars(strip(input_str), Unsafe)

\* calendly._sanitize_input: also lower-cases and turns spaces into underscores
calendly_sanitize_input(input_str) ==
    IF input_str = <<>> THEN <<>>
    ELSE remove_chars(replace_char(lower(strip(input_str)), " ", "_"), Unsafe)

\* messaging._sanitize_input
messaging_sanitize_input(input_str) ==
    IF input_str = <<>> THEN <<>> ELSE remove_chars(strip(input_str), Unsafe)

\* ReceptionistAgent._sanitize_string
_sanitize_string(input_string) == remove_chars(strip(input_string), Unsafe)

-----------------------------------------------------------------------------
(* agents/receptionist_agent.py: GuestInfo and ReceptionistAgent.validate_input *)

NameMinLength == 2
NameMaxLength == 100
PurposeMinLength == 5
PurposeMaxLength == 200
PhoneMaxFurtherDigits == 14

\* The pattern ^\+?[1-9]\d{1,14}$ matched against the whole string.
phone_pattern(s) ==
    LET t == IF s # <<>> /\ Head(s) = "+" THEN Tail(s) ELSE s
    IN  /\ Len(t) >= 2
        /\ Len(t) <= 1 + PhoneMaxFurtherDigits
        /\ t[1] \in Digits \ {"0"}
        /\ \A i \in 2..Len(t) : t[i] \in Digits

\* Python's re.match with that pattern: $ also matches before one trailing newline.
re_match_phone(s) ==
    \/ phone_pattern(s)
    \/ s # <<>> /\ s[Len(s)] = "\n" /\ phone_pattern(SubSeq(s, 1, Len(s) - 1))

\* Characters of an e-mail address atom (letters, digits and the specials of RFC 5322).
AText ==
    Letters \cup Digits \cup {"!", "#", "$", "%", "&", "'", "*", "+", "-", "/", "=", "?", "^", "_", "{", "|", "}", "~"}

\* Characters of a domain name label.
LabelChars == Letters \cup Digits \cup {"-"}

\* A dot-separated sequence of non-empty atoms over the given characters.
dot_atom(s, chars) ==
    /\ s # <<>>
    /\ \A i \in 1..Len(s) : s[i] = "." \/ s[i] \in chars
    /\ s[1] # "." /\ s[Len(s)] # "."
    /\ \A i \in 1..(Len(s) - 1) : ~(s[i] = "." /\ s[i + 1] = ".")

\* pydantic EmailStr: one @, a dot-atom local part, a dotted domain name.
EmailStr(s) ==
    LET parts == split(s, <<"@">>)
    IN  /\ Len(parts) = 2
        /\ dot_atom(parts[1], AText)
        /\ dot_atom(parts[2], LabelChars)
        /\ contains(parts[2], <<".">>)

\* GuestInfo(**data): the field constraints of the pydantic model; every field is required
GuestInfo(data) ==
    /\ {"name", "email", "phone", "purpose"} \subseteq DOMAIN data
    /\ Len(data.name) >= NameMinLength /\ Len(data.name) <= NameMaxLength
    /\ EmailStr(data.email)
    /\ phone_pattern(data.phone)
    /\ Len(data.purpose) >= PurposeMinLength /\ Len(data.purpose) <= PurposeMaxLength

\* A faulty variant of validate_input, for testing that the validation properties tell
\* it from validate_input: the phone is matched as Python's re.match matches it.
validate_input_lenient(guest_data) ==
    LET sanitized_data == [key \in DOMAIN guest_data |-> _sanitize_string(guest_data[key])]
    IN  IF GuestInfo([sanitized_data EXCEPT !.phone = <<"1", "2">>])
           /\ re_match_phone(sanitized_data.phone)
        THEN sanitized_data ELSE None

\* ReceptionistAgent.validate_input: the sanitized GuestInfo, or None
validate_input(guest_data) ==
    LET sanitized_data == [key \in DOMAIN guest_data |-> _sanitize_string(guest_data[key])]
    IN  IF GuestInfo(sanitized_data) THEN sanitized_data ELSE None

-----------------------------------------------------------------------------
(* services/calendly.py                                                     *)

Str_at == <<" ", "a", "t", " ">>
Str_pm == <<"p", "m">>
Str_general == <<"g", "e", "n", "e", "r", "a", "l">>

\* day_map of _parse_datetime: position i holds the name of weekday i - 1
day_map ==
    << <<"m", "o", "n", "d", "a", "y">>, <<"t", "u", "e", "s", "d", "a", "y">>,
       <<"w", "e", "d", "n", "e", "s", "d", "a", "y">>, <<"t", "h", "u", "r", "s", "d", "a", "y">>,
       <<"f", "r", "i", "d", "a", "y">>, <<"s", "a", "t", "u", "r", "d", "a", "y">>,
       <<"s", "u", "n", "d", "a", "y">> >>

\* datetime.now().weekday(): 0 is Monday
Weekdays == 0..6

\* datetime.fromisoformat for the forms YYYY-MM-DD and YYYY-MM-DDTHH:MM:SS
\* (the forms of the documented examples); None stands for its ValueError.
fromisoformat(s) ==
    LET num(a, b) == int(SubSeq(s, a, b))
        digits_at(idx) == \A i \in idx : s[i] \in Digits
        date_ok == /\ Len(s) >= 10
                   /\ digits_at({1, 2, 3, 4, 6, 7, 9, 10})
                   /\ s[5] = "-" /\ s[8] = "-"
                   /\ num(1, 4) >= 1
                   /\ num(6, 7) \in 1..12
                   /\ num(9, 10) \in 1..31
        time_ok == /\ Len(s) = 19
                   /\ digits_at({12, 13, 15, 16, 18, 19})
                   /\ s[14] = ":" /\ s[17] = ":"
                   /\ num(12, 13) \in 0..23
                   /\ num(15, 16) \in 0..59
                   /\ num(18, 19) \in 0..59
    IN  IF date_ok /\ Len(s) = 10
        THEN [year |-> num(1, 4), month |-> num(6, 7), day |-> num(9, 10), hour |-> 0]
        ELSE IF date_ok /\ time_ok
        THEN [year |-> num(1, 4), month |-> num(6, 7), day |-> num(9, 10), hour |-> num(12, 13)]
        ELSE None

\* The weekday names as a caller says them; position i names weekday i - 1.
DayNames ==
    << <<"M", "o", "n", "d", "a", "y">>, <<"T", "u", "e", "s", "d", "a", "y">>,
       <<"W", "e", "d", "n", "e", "s", "d", "a", "y">>, <<"T", "h", "u", "r", "s", "d", "a", "y">>,
       <<"F", "r", "i", "d", "a", "y">>, <<"S", "a", "t", "u", "r", "d", "a", "y">>,
       <<"S", "u", "n", "d", "a", "y">> >>

\* The hours said: 1 to 12, and 0, 13, 24 and 25 outside the 12-hour clock.
SaidHours == (0..13) \cup {24, 25}

Meridiems == {<<"A", "M">>, <<"P", "M">>}

\* The decimal numeral of an hour.
numeral(n) ==
    LET d(k) == <<"0", "1", "2", "3", "4", "5", "6", "7", "8", "9">>[k + 1]
    IN  IF n < 10 THEN <<d(n)>> ELSE <<d(n \div 10), d(n % 10)>>

\* A faulty variant of _parse_datetime, for testing that the date properties tell it
\* from _parse_datetime: the named weekday can be the current day (days_ahead 0).
_parse_datetime_same_day(time_text, today) ==
    LET text == lower(time_text)
        parts == split(text, Str_at)
    IN  IF fromisoformat(time_text) # None THEN fromisoformat(time_text)
        ELSE IF Len(parts) # 2 \/ first_digits(parts[Len(parts)]) = <<>> THEN None
        ELSE
        LET found == first_digits(parts[2])
            hour == IF contains(parts[2], Str_pm) /\ int(found) < 12
                    THEN int(found) + 12 ELSE int(found)
            named == {i \in DOMAIN day_map : day_map[i] = strip(parts[1])}
        IN  IF named = {} \/ hour > 23 THEN None
            ELSE LET days_ahead == ((CHOOSE i \in named : TRUE) - 1 - today + 7) % 7
                 IN  [days_ahead |-> days_ahead, weekday |-> (today + days_ahead) % 7,
                      hour |-> hour]

\* _parse_datetime(time_text) evaluated on a day whose weekday is today
_parse_datetime(time_text, today) ==
    LET iso == fromisoformat(time_text)
        text == lower(time_text)
    IN  IF iso # None THEN iso
        ELSE
        IF ~contains(text, Str_at) THEN None
        ELSE
        LET parts == split(text, Str_at)
        IN  IF Len(parts) # 2 THEN None                     \* unpacking raises ValueError
            ELSE
            LET day == parts[1]
                time == parts[2]
                found == first_digits(time)
            IN  IF found = <<>> THEN None                   \* re.search returned None
                ELSE
                LET hour == IF contains(time, Str_pm) /\ int(found) < 12
                            THEN int(found) + 12 ELSE int(found)
                    named == {i \in DOMAIN day_map : day_map[i] = strip(day)}
                IN  IF named = {} THEN None                 \* Invalid day
                    ELSE
                    LET target_day == (CHOOSE i \in named : TRUE) - 1
                        days_ahead == IF (target_day - today + 7) % 7 = 0
                                      THEN 7 ELSE (target_day - today + 7) % 7
                    IN  IF hour > 23 THEN None              \* datetime() raises ValueError
                        ELSE [days_ahead |-> days_ahead,
                              weekday |-> (today + days_ahead) % 7,
                              hour |-> hour]

Str_jo == <<"j", "o">>

\* DOCTOR_EVENT_MAP: (doctor, department) -> Calendly event type. The repository
\* hides its entries; one doctor of the general department stands for them.
DOCTOR_EVENT_MAP == [key \in {<<Str_jo, Str_general>>} |-> "event-type-jo-general"]

\* What requests.get can do: raise, or answer with a status and a collection of events.
GetResponses ==
    {[raised |-> TRUE, status_code |-> 0, events |-> 0],
     [raised |-> FALSE, status_code |-> 200, events |-> 0],
     [raised |-> FALSE, status_code |-> 200, events |-> 1],
     [raised |-> FALSE, status_code |-> 500, events |-> 0]}

\* A faulty variant of is_time_available, for testing that the fail-closed properties
\* tell it from is_time_available: an answer other than 200 counts as a free slot.
is_time_available_failing_open(doctor_name, time_text, today, response) ==
    LET doctor == calendly_sanitize_input(doctor_name)
    IN  IF doctor = <<>> THEN FALSE
        ELSE IF _parse_datetime(time_text, today) = None THEN FALSE
        ELSE IF DOMAIN DOCTOR_EVENT_MAP = {} THEN FALSE
        ELSE IF response.raised THEN FALSE
        ELSE IF response.status_code = 200 THEN response.events = 0
        ELSE TRUE

\* is_time_available(doctor_name, time_text), given today's weekday and the service's answer
is_time_available(doctor_name, time_text, today, response) ==
    LET doctor == calendly_sanitize_input(doctor_name)
    IN  IF doctor = <<>> THEN FALSE
        ELSE IF _parse_datetime(time_text, today) = None THEN FALSE
        ELSE IF DOMAIN DOCTOR_EVENT_MAP = {} THEN FALSE     \* list(...)[0] raises IndexError
        ELSE IF response.raised THEN FALSE
        ELSE IF response.status_code = 200 THEN response.events = 0
        ELSE FALSE

\* What the scheduling service holds for one slot: no event (free) or one (taken).
SlotStates == {r \in GetResponses : ~r.raised /\ r.status_code = 200}

\* The booking link Calendly answers with.
BookingUrl == [scheme |-> "https", netloc |-> "calendly.com", path |-> "/d/abc-123"]

\* What requests.post can do: raise, or answer with a status (201 carries the booking_url).
PostResponses ==
    {[raised |-> TRUE, status_code |-> 0],
     [raised |-> FALSE, status_code |-> 201],
     [raised |-> FALSE, status_code |-> 500]}

Str_appointment_with == <<"A", "p", "p", "o", "i", "n", "t", "m", "e", "n", "t", " ", "w", "i", "t", "h", " ">>
Str_in == <<" ", "i", "n", " ">>
Str_fallback_phone == <<"+", "1", "2", "3", "4", "5", "6", "7", "8", "9", "0">>

\* create_calendly_appointment(doctor_name, department, user_info, appointment_time):
\* the booking link, or None
create_calendly_appointment(doctor_name, department, user_info, appointment_time, today, response) ==
    LET doctor == calendly_sanitize_input(doctor_name)
        dept == calendly_sanitize_input(department)
        guest_data == [name |-> calendly_sanitize_input(user_info.name),
                       email |-> user_info.email,
                       phone |-> IF "phone" \in DOMAIN user_info
                                 THEN user_info.phone ELSE Str_fallback_phone,
                       purpose |-> Str_appointment_with \o doctor \o Str_in \o dept
                                   \o Str_at \o appointment_time]
    IN  IF <<doctor, dept>> \notin DOMAIN DOCTOR_EVENT_MAP THEN None
        ELSE IF validate_input(guest_data) = None THEN None
        ELSE IF _parse_datetime(appointment_time, today) = None THEN None
        ELSE IF response.raised THEN None
        ELSE IF response.status_code = 201 THEN BookingUrl
        ELSE None

-----------------------------------------------------------------------------
(* services/messaging.py                                                    *)

\* _sanitize_url: the URL rebuilt from scheme, host and path, or None
_sanitize_url(url) ==
    IF url = None THEN None
    ELSE IF url.scheme \notin {"http", "https"} \/ url.netloc = "" THEN None
    ELSE url

Str_guest == <<"G", "u", "e", "s", "t">>
Str_guest_email == <<"g", "u", "e", "s", "t", "@", "e", "x", "a", "m", "p", "l", "e", ".", "c", "o", "m">>
Str_confirmation_with == <<"A", "p", "p", "o", "i", "n", "t", "m", "e", "n", "t", " ", "c", "o", "n", "f", "i", "r", "m", "a", "t", "i", "o", "n", " ", "w", "i", "t", "h", " ">>

\* What client.messages.create can do.
TwilioOutcomes == {"sent", "TwilioRestException"}

\* A faulty variant of send_confirmation_sms, for testing that the properties of the
\* notifier tell it from send_confirmation_sms: the number is not validated.
send_confirmation_sms_unvalidated(to_number, doctor, time, calendly_link, twilio) ==
    LET to == messaging_sanitize_input(to_number)
        d == messaging_sanitize_input(doctor)
        t == messaging_sanitize_input(time)
        link == _sanitize_url(calendly_link)
    IN  IF to = <<>> \/ d = <<>> \/ t = <<>> \/ link = None
        THEN [returned |-> FALSE, message |-> None]
        ELSE IF twilio = "sent"
        THEN [returned |-> TRUE, message |-> [to |-> to, doctor |-> d, time |-> t, link |-> link]]
        ELSE [returned |-> FALSE, message |-> None]

\* send_confirmation_sms(to_number, doctor, time, calendly_link): its return value and
\* the message handed to Twilio (None when none was sent)
send_confirmation_sms(to_number, doctor, time, calendly_link, twilio) ==
    LET to == messaging_sanitize_input(to_number)
        d == messaging_sanitize_input(doctor)
        t == messaging_sanitize_input(time)
        link == _sanitize_url(calendly_link)
        validated_guest == validate_input([name |-> Str_guest, email |-> Str_guest_email,
                                           phone |-> to,
                                           purpose |-> Str_confirmation_with \o d \o Str_at \o t])
    IN  IF to = <<>> \/ d = <<>> \/ t = <<>> \/ link = None
        THEN [returned |-> FALSE, message |-> None]
        ELSE IF validated_guest = None THEN [returned |-> FALSE, message |-> None]
        ELSE IF twilio = "sent"
        THEN [returned |-> TRUE,
              message |-> [to |-> validated_guest.phone, doctor |-> d, time |-> t, link |-> link]]
        ELSE [returned |-> FALSE, message |-> None]

-----------------------------------------------------------------------------
(* services/booking_handler.py                                              *)

\* The most _generate_audio_url calls one try block makes (capture_user_address).
MaxRenderCalls == 5

\* What the prompt renderer does during one turn: its fail_at-th call inside the
\* handler's try block raises (0: none does), and the call of the except block
\* succeeds or raises. The first and the last call stand for the calls that can raise:
\* every try block renders all its prompts either after its last write to the session
\* or (capture_user_address) four of them before the creation and one after it.
AudioOutcomes == [fail_at : {0, 1, MaxRenderCalls}, error_prompt_ok : BOOLEAN]

\* The first n _generate_audio_url calls of the try block return.
rendered(n, audio) == audio.fail_at = 0 \/ audio.fail_at > n

\* A TwiML response: the prompts played, the Gather action, the redirect, the hangup.
TwiML(prompts, gather, redirect, hangup) ==
    [raised |-> FALSE, prompts |-> prompts, gather |-> gather, redirect |-> redirect,
     hangup |-> hangup]

\* No response: the exception left the handler.
Raised == [raised |-> TRUE, prompts |-> <<>>, gather |-> "", redirect |-> "", hangup |-> FALSE]

\* The except block shared by the capture handlers: an error prompt and a redirect to
\* /book-appointment; the session store is left as the try block left it.
except_block(store, calls, audio) ==
    [store |-> store,
     calls |-> calls,
     resp |-> IF audio.error_prompt_ok
              THEN TwiML(<<"An error occurred">>, "", "/book-appointment", FALSE)
              ELSE Raised]

\* secure_session_data[call_sid] = {"doctor": doctor_name}
new_session(store, call_sid, doctor_name) ==
    [k \in DOMAIN store \cup {call_sid} |->
        IF k = call_sid THEN [doctor |-> doctor_name] ELSE store[k]]

\* capture_doctor_name(request_obj)
capture_doctor_name(store, form, env) ==
    LET call_sid == _sanitize_input(form.CallSid)
        doctor_name == _sanitize_input(form.SpeechResult)
    IN  IF call_sid = <<>> THEN except_block(store, <<>>, env.audio)
        ELSE IF doctor_name = <<>>
        THEN IF rendered(1, env.audio)
             THEN [store |-> store, calls |-> <<>>,
                   resp |-> TwiML(<<"No doctor name provided">>, "", "/book-appointment", FALSE)]
             ELSE except_block(store, <<>>, env.audio)
        ELSE LET stored == new_session(store, call_sid, doctor_name)
             IN  IF rendered(3, env.audio)
                 THEN [store |-> stored, calls |-> <<>>,
                       resp |-> TwiML(<<"You said Doctor", "Please say the date and time",
                                        "Sorry, I didn't catch that">>,
                                      "/capture-appointment-time", "/book-appointment", FALSE)]
                 ELSE except_block(stored, <<>>, env.audio)

\* session[field] = value on the session dict of call_sid
set_field(store, call_sid, field, value) ==
    [store EXCEPT ![call_sid] =
        [f \in DOMAIN @ \cup {field} |-> IF f = field THEN value ELSE @[f]]]

\* capture_appointment_time(request_obj)
capture_appointment_time(store, form, env) ==
    LET call_sid == _sanitize_input(form.CallSid)
        time_text == _sanitize_input(form.SpeechResult)
    IN  IF call_sid = <<>> \/ call_sid \notin DOMAIN store
        THEN except_block(store, <<>>, env.audio)
        ELSE IF time_text = <<>> THEN except_block(store, <<>>, env.audio)
        ELSE
        LET stored == set_field(store, call_sid, "time_text", time_text)
            session == stored[call_sid]
            check == [op |-> "is_time_available", doctor |-> session.doctor,
                      time_text |-> time_text,
                      response |-> env.get,     \* what the scheduling service answered
                      result |-> is_time_available(session.doctor, time_text, env.today, env.get)]
        IN  IF ~check.result
            THEN IF rendered(2, env.audio)
                 THEN [store |-> stored, calls |-> <<check>>,
                       resp |-> TwiML(<<"is not available at", "Please say a different date and time">>,
                                      "/capture-appointment-time", "", FALSE)]
                 ELSE except_block(stored, <<check>>, env.audio)
            ELSE IF rendered(2, env.audio)
                 THEN [store |-> stored, calls |-> <<check>>,
                       resp |-> TwiML(<<"is available at", "Please say your full name">>,
                                      "/capture-user-name", "", FALSE)]
                 ELSE except_block(stored, <<check>>, env.audio)

\* A faulty variant of capture_user_name, for testing that the progress properties tell
\* it from capture_user_name: its response gathers the address, skipping the phone step.
capture_user_name_skipping_phone(store, form, env) ==
    LET call_sid == _sanitize_input(form.CallSid)
        name == _sanitize_input(form.SpeechResult)
    IN  IF call_sid = <<>> \/ call_sid \notin DOMAIN store
        THEN except_block(store, <<>>, env.audio)
        ELSE IF name = <<>> THEN except_block(store, <<>>, env.audio)
        ELSE
        LET stored == set_field(store, call_sid, "name", name)
        IN  IF rendered(1, env.audio)
            THEN [store |-> stored, calls |-> <<>>,
                  resp |-> TwiML(<<"Now say your mobile number">>, "/capture-user-address", "", FALSE)]
            ELSE except_block(stored, <<>>, env.audio)

\* capture_user_name(request_obj)
capture_user_name(store, form, env) ==
    LET call_sid == _sanitize_input(form.CallSid)
        name == _sanitize_input(form.SpeechResult)
    IN  IF call_sid = <<>> \/ call_sid \notin DOMAIN store
        THEN except_block(store, <<>>, env.audio)
        ELSE IF name = <<>> THEN except_block(store, <<>>, env.audio)
        ELSE
        LET stored == set_field(store, call_sid, "name", name)
        IN  IF rendered(1, env.audio)
            THEN [store |-> stored, calls |-> <<>>,
                  resp |-> TwiML(<<"Now say your mobile number">>, "/capture-user-phone", "", FALSE)]
            ELSE except_block(stored, <<>>, env.audio)

\* capture_user_phone(request_obj)
capture_user_phone(store, form, env) ==
    LET call_sid == _sanitize_input(form.CallSid)
        phone == remove_chars(remove_chars(_sanitize_input(form.SpeechResult), {" "}), {"-"})
    IN  IF call_sid = <<>> \/ call_sid \notin DOMAIN store
        THEN except_block(store, <<>>, env.audio)
        ELSE IF phone = <<>> \/ ~re_match_phone(phone) THEN except_block(store, <<>>, env.audio)
        ELSE
        LET stored == set_field(store, call_sid, "phone", phone)
        IN  IF rendered(1, env.audio)
            THEN [store |-> stored, calls |-> <<>>,
                  resp |-> TwiML(<<"Please say your address">>, "/capture-user-address", "", FALSE)]
            ELSE except_block(stored, <<>>, env.audio)

Str_example_com == <<"@", "e", "x", "a", "m", "p", "l", "e", ".", "c", "o", "m">>
Str_appointment_with_dr == <<"A", "p", "p", "o", "i", "n", "t", "m", "e", "n", "t", " ", "w", "i", "t", "h", " ", "D", "r", ".", " ">>
Str_General == <<"g", "e", "n", "e", "r", "a", "l">>

\* guest_data of capture_user_address: the guest record derived from the session
guest_data_of(session) ==
    [name |-> session.name,
     email |-> replace_char(lower(session.name), " ", ".") \o Str_example_com,
     phone |-> session.phone,
     purpose |-> Str_appointment_with_dr \o session.doctor \o Str_at \o session.time_text]

\* The create_calendly_appointment call of capture_user_address and what it returned;
\* slot_free tells whether the scheduling service had the slot free at that moment
\* (the call does not ask).
create_call(session, validated_guest, env) ==
    [op |-> "create_calendly_appointment",
     slot_free |-> is_time_available(session.doctor, session.time_text, env.today, env.slot),
     doctor |-> session.doctor,
     department |-> Str_General,
     user_info |-> [name |-> session.name, email |-> validated_guest.email],
     appointment_time |-> session.time_text,
     result |-> create_calendly_appointment(session.doctor, Str_General,
                    [name |-> session.name, email |-> validated_guest.email],
                    session.time_text, env.today, env.post)]

\* A faulty variant of sms_call, for testing that the properties of the confirmation
\* SMS tell it from sms_call: the message is addressed to the session's name.
sms_call_to_name(session, calendly_link, env) ==
    [op |-> "send_confirmation_sms",
     to_number |-> session.name,
     doctor |-> session.doctor,
     time |-> session.time_text,
     calendly_link |-> calendly_link,
     result |-> send_confirmation_sms(session.name, session.doctor, session.time_text,
                                      calendly_link, env.twilio)]

\* The send_confirmation_sms call of capture_user_address and what it returned.
sms_call(session, calendly_link, env) ==
    [op |-> "send_confirmation_sms",
     to_number |-> session.phone,
     doctor |-> session.doctor,
     time |-> session.time_text,
     calendly_link |-> calendly_link,
     result |-> send_confirmation_sms(session.phone, session.doctor, session.time_text,
                                      calendly_link, env.twilio)]

\* A faulty variant of pop_session, for testing that the properties of the removal
\* tell it from pop_session: nothing is removed.
pop_session_noop(store, call_sid) == store

\* secure_session_data.pop(call_sid, None)
pop_session(store, call_sid) == [k \in DOMAIN store \ {call_sid} |-> store[k]]

\* A faulty variant of book_appointment, for testing that the retention properties tell
\* it from book_appointment: the session is removed as soon as the creation call has
\* returned, whatever it returned (a clean-up in a finally clause).
book_appointment_cleanup_always(store, call_sid, validated_guest, env) ==
    LET session == store[call_sid]
        create == create_call(session, validated_guest, env)
        cleaned == pop_session(store, call_sid)
    IN  IF create.result = None THEN except_block(cleaned, <<create>>, env.audio)
        ELSE
        LET sms == sms_call(session, create.result, env)
        IN  IF rendered(5, env.audio)
            THEN [store |-> cleaned,
                  calls |-> <<create, sms>>,
                  resp |-> TwiML(<<"Confirming your booking details", "You want to book with",
                                   "Your name is", "Booking your appointment now",
                                   "successfully booked">>, "", "", TRUE)]
            ELSE except_block(cleaned, <<create, sms>>, env.audio)

\* A faulty variant of book_appointment, for testing that the properties of a repeated
\* final step tell it from book_appointment: the session is not removed after a
\* successful booking.
book_appointment_keeping_session(store, call_sid, validated_guest, env) ==
    LET session == store[call_sid]
        create == create_call(session, validated_guest, env)
    IN  IF create.result = None THEN except_block(store, <<create>>, env.audio)
        ELSE
        LET sms == sms_call(session, create.result, env)
        IN  IF rendered(5, env.audio)
            THEN [store |-> store,
                  calls |-> <<create, sms>>,
                  resp |-> TwiML(<<"Confirming your booking details", "You want to book with",
                                   "Your name is", "Booking your appointment now",
                                   "successfully booked">>, "", "", TRUE)]
            ELSE except_block(store, <<create, sms>>, env.audio)

\* capture_user_address from "Create appointment" on: creation, confirmation SMS,
\* the final prompt and the clean-up of the session.
book_appointment(store, call_sid, validated_guest, env) ==
    LET session == store[call_sid]
        create == create_call(session, validated_guest, env)
    IN  IF create.result = None THEN except_block(store, <<create>>, env.audio)
        ELSE
        LET sms == sms_call(session, create.result, env)
        IN  IF rendered(5, env.audio)
            THEN [store |-> pop_session(store, call_sid),
                  calls |-> <<create, sms>>,
                  resp |-> TwiML(<<"Confirming your booking details", "You want to book with",
                                   "Your name is", "Booking your appointment now",
                                   "successfully booked">>, "", "", TRUE)]
            ELSE except_block(store, <<create, sms>>, env.audio)

\* A faulty variant of validate_and_book, for testing that the validation properties
\* tell it from validate_and_book: the result of validate_input is not checked and the
\* booking goes on with the unvalidated guest record.
validate_and_book_unchecked(store, call_sid, env) ==
    LET session == store[call_sid]
    IN  IF ~({"name", "phone", "doctor", "time_text"} \subseteq DOMAIN session)
        THEN except_block(store, <<>>, env.audio)
        ELSE IF ~rendered(4, env.audio) THEN except_block(store, <<>>, env.audio)
        ELSE book_appointment(store, call_sid, guest_data_of(session), env)

\* capture_user_address from "Validate guest data" on: the guest record is validated,
\* the four confirmation prompts are rendered, then the appointment is booked.
validate_and_book(store, call_sid, env) ==
    LET session == store[call_sid]
    IN  IF ~({"name", "phone", "doctor", "time_text"} \subseteq DOMAIN session)
        THEN except_block(store, <<>>, env.audio)           \* KeyError
        ELSE
        LET validated_guest == validate_input(guest_data_of(session))
        IN  IF validated_guest = None THEN except_block(store, <<>>, env.audio)
            ELSE IF ~rendered(4, env.audio) THEN except_block(store, <<>>, env.audio)
            ELSE book_appointment(store, call_sid, validated_guest, env)

\* capture_user_address(request_obj)
capture_user_address(store, form, env) ==
    LET call_sid == _sanitize_input(form.CallSid)
        address == _sanitize_input(form.SpeechResult)
    IN  IF call_sid = <<>> \/ call_sid \notin DOMAIN store
        THEN except_block(store, <<>>, env.audio)
        ELSE IF address = <<>> THEN except_block(store, <<>>, env.audio)
        ELSE validate_and_book(set_field(store, call_sid, "address", address), call_sid, env)

-----------------------------------------------------------------------------
(* services/intent_handler.py                                               *)

\* intent_handler._sanitize_input, the digit sanitizer: "" for an empty input; for any
\* other input it evaluates re.sub, and the module does not import re, so the call
\* raises NameError.
intent_sanitize_input(input_str) ==
    IF input_str = <<>> THEN [raised |-> FALSE, value |-> <<>>]
    ELSE [raised |-> TRUE, value |-> <<>>]

\* HUMAN_SUPPORT_NUMBER, read from the environment.
HUMAN_SUPPORT_NUMBER == "HUMAN_SUPPORT_NUMBER"

\* A TwiML response of the menu: one prompt, then a redirect or a dial.
MenuTwiML(prompt, redirect, dial) ==
    [raised |-> FALSE, prompts |-> <<prompt>>, gather |-> "", redirect |-> redirect,
     hangup |-> FALSE, dial |-> dial]

\* The except block of process_numeric_selection: an error prompt and a redirect to /voice.
menu_except_block(store, audio) ==
    [store |-> store,
     calls |-> <<>>,
     resp |-> IF audio.error_prompt_ok
              THEN MenuTwiML("An error occurred", "/voice", "")
              ELSE Raised]

\* The if/elif chain of process_numeric_selection on the sanitized digit.
menu_branch(digit) ==
    IF digit = <<"1">> THEN MenuTwiML("Let's book your appointment", "/book-appointment", "")
    ELSE IF digit = <<"2">>
    THEN MenuTwiML("let's cancel your appointment", "/cancel-appointment", "")
    ELSE IF digit = <<"3">>
    THEN MenuTwiML("we will reschedule your appointment", "/reschedule-appointment", "")
    ELSE IF digit = <<"4">>
    THEN MenuTwiML("Checking doctor availability now", "/check-availability", "")
    ELSE IF digit = <<"5">>
    THEN MenuTwiML("Connecting you to a human agent now", "", HUMAN_SUPPORT_NUMBER)
    ELSE MenuTwiML("Invalid input", "/voice", "")

\* process_numeric_selection(request_obj)
process_numeric_selection(store, form, env) ==
    LET digit == intent_sanitize_input(form.Digits)
        call_sid == intent_sanitize_input(form.CallSid)
    IN  IF digit.raised \/ call_sid.raised THEN menu_except_block(store, env.audio)
        ELSE IF call_sid.value = <<>> THEN menu_except_block(store, env.audio)
        ELSE IF ~rendered(1, env.audio) THEN menu_except_block(store, env.audio)
        ELSE [store |-> store, calls |-> <<>>, resp |-> menu_branch(digit.value)]

-----------------------------------------------------------------------------
(* The webhook turns.                                                       *)

\* The CallSid field of a request: missing, or the identifier of a call; the last one
\* differs from the first by a character that _sanitize_input removes.
CallSidInputs == {<<>>, <<"C", "A", "1">>, <<"C", "A", "2">>, <<"C", "A", "1", ";">>}

\* The SpeechResult field of a request at each prompt: missing, and what a caller may say.
DoctorInputs == {<<>>, <<" ", "J", "o", ";">>}
TimeInputs == {<<>>, <<"M", "o", "n", "d", "a", "y", " ", "a", "t", " ", "2", " ", "P", "M">>}
NameInputs == {<<>>, <<"J">>, <<"J", "o">>}
PhoneInputs == {<<>>, <<"1", "-", "2", " ">>, <<"0">>, <<"1", "2", "\n", ";">>}
AddressInputs == {<<>>, <<"R", "d">>}

\* The weekday on which the turns are taken (a Friday).
Todays == {4}

\* Creations counted per session; capture_user_address is not explored beyond it.
MaxBookings == 2

Forms(inputs) == [CallSid : CallSidInputs, SpeechResult : inputs]

CallSids == {_sanitize_input(c) : c \in CallSidInputs} \ {<<>>}

successful_creations(calls) ==
    Cardinality({i \in DOMAIN calls :
        calls[i].op = "create_calendly_appointment" /\ calls[i].result # None})

positive_checks(calls) ==
    {<<calls[i].doctor, calls[i].time_text>> : i \in
        {j \in DOMAIN calls : calls[j].op = "is_time_available" /\ calls[j].result}}

\* No threads are serving requests concurrently.
\* The routes of app.py.
Routes ==
    {"/voice", "/process-intent", "/process-selection", "/book-appointment",
     "/capture-doctor-name", "/capture-appointment-time", "/capture-user-name",
     "/capture-user-phone", "/capture-user-address"}

\* No route has been called in the current period.
NoCalls == [route \in Routes |-> 0]

NoRace == [start |-> <<>>, store |-> <<>>, heap |-> <<>>, th |-> <<>>]

\* No request is being served.
NoTurn ==
    [handler |-> "none", form |-> [CallSid |-> <<>>, SpeechResult |-> <<>>],
     call_sid |-> <<>>, calls |-> <<>>, resp |-> TwiML(<<>>, "", "", FALSE)]

\* One turn (a request arrives while none is being served: the turns are sequential):
\* the handler's effect on the store, and what the turn showed to the outside: the
\* request form, the calls made to the collaborators and the response.
TurnEffect(handler, form, r) ==
    LET call_sid == _sanitize_input(form.CallSid)
        recreated == handler = "capture_doctor_name" /\ r.store # secure_session_data
    IN  /\ secure_session_data' = r.store
        /\ turn' = [handler |-> handler, form |-> form, call_sid |-> call_sid,
                    calls |-> r.calls, resp |-> r.resp]
        /\ bookings' = [s \in CallSids |->
                IF s \notin DOMAIN r.store \/ (s = call_sid /\ recreated) THEN 0
                ELSE IF s = call_sid THEN bookings[s] + successful_creations(r.calls)
                ELSE bookings[s]]
        /\ available' = [s \in CallSids |->
                IF s \notin DOMAIN r.store \/ (s = call_sid /\ recreated) THEN {}
                ELSE IF s = call_sid THEN available[s] \cup positive_checks(r.calls)
                ELSE available[s]]
        /\ UNCHANGED <<completed, race>>

\* A turn during which the scheduling service is not observed.
Turn(handler, form, r) == TurnEffect(handler, form, r) /\ UNCHANGED <<appointments, num_calls>>

\* The form passes the checks that precede a handler's calls to its collaborators.
passes_first_checks(form) ==
    /\ _sanitize_input(form.CallSid) \in DOMAIN secure_session_data
    /\ _sanitize_input(form.SpeechResult) # <<>>

\* The collaborators' outcomes during a turn: all of them when the handler can reach
\* its collaborators, one when its first checks reject the form before.
Outcomes(form, all) == IF passes_first_checks(form) THEN all ELSE {CHOOSE o \in all : TRUE}

\* The renderer's outcomes during a turn of a handler that renders its prompts after
\* its first checks: when these reject the form, only the prompt of the except block
\* is rendered.
RenderOutcomes(form) ==
    IF passes_first_checks(form) THEN AudioOutcomes
    ELSE {audio \in AudioOutcomes : audio.fail_at = 0}

CaptureDoctorName ==
    /\ turn = NoTurn
    /\ \E form \in Forms(DoctorInputs), audio \in AudioOutcomes :
        LET r == capture_doctor_name(secure_session_data, form, [audio |-> audio])
        IN  Turn("capture_doctor_name", form, r)

CaptureAppointmentTime ==
    /\ turn = NoTurn
    /\ \E form \in Forms(TimeInputs) : \E audio \in RenderOutcomes(form) :
        \E o \in Outcomes(form, [today : Todays, get : GetResponses]) :
            LET r == capture_appointment_time(secure_session_data, form,
                     [audio |-> audio, today |-> o.today, get |-> o.get])
            IN  Turn("capture_appointment_time", form, r)

CaptureUserName ==
    /\ turn = NoTurn
    /\ \E form \in Forms(NameInputs) : \E audio \in RenderOutcomes(form) :
        LET r == capture_user_name(secure_session_data, form, [audio |-> audio])
        IN  Turn("capture_user_name", form, r)

CaptureUserPhone ==
    /\ turn = NoTurn
    /\ \E form \in Forms(PhoneInputs) : \E audio \in RenderOutcomes(form) :
        LET r == capture_user_phone(secure_session_data, form, [audio |-> audio])
        IN  Turn("capture_user_phone", form, r)

\* The collaborators' outcomes during a turn of capture_user_address: Twilio is reached
\* only after a creation that returned a booking link.
AddressOutcomes ==
    {o \in [today : Todays, post : PostResponses, twilio : TwilioOutcomes, slot : SlotStates] :
        (o.post.raised \/ o.post.status_code # 201) => o.twilio = "sent"}

CaptureUserAddress ==
    /\ turn = NoTurn
    /\ \A s \in CallSids : bookings[s] < MaxBookings
    /\ \E form \in Forms(AddressInputs) : \E audio \in RenderOutcomes(form) :
        \E o \in Outcomes(form, AddressOutcomes) :
            LET r == capture_user_address(secure_session_data, form,
                     [audio |-> audio, today |-> o.today, post |-> o.post,
                      twilio |-> o.twilio, slot |-> o.slot])
            IN  Turn("capture_user_address", form, r)

\* The response has gone back to the telephony provider; the next request may arrive.
ReturnResponse ==
    /\ turn # NoTurn
    /\ turn' = NoTurn
    /\ completed' = IF turn.resp.hangup THEN turn.call_sid ELSE <<>>
    /\ UNCHANGED <<secure_session_data, bookings, available, race, appointments, num_calls>>

Init ==
    /\ secure_session_data = [k \in {} |-> None]
    /\ bookings = [s \in CallSids |-> 0]
    /\ available = [s \in CallSids |-> {}]
    /\ turn = NoTurn
    /\ completed = <<>>
    /\ race = NoRace
    /\ appointments = {}
    /\ num_calls = NoCalls

Next ==
    \/ CaptureDoctorName
    \/ CaptureAppointmentTime
    \/ CaptureUserName
    \/ CaptureUserPhone
    \/ CaptureUserAddress
    \/ ReturnResponse

Spec == Init /\ [][Next]_vars

-----------------------------------------------------------------------------
(* The numeric menu.                                                        *)

\* The Digits field of a request: missing, the five menu digits, and others.
DigitInputs == {<<>>, <<"1">>, <<"2">>, <<"3">>, <<"4">>, <<"5">>, <<"9">>, <<"1", "2">>}

MenuForms == [CallSid : CallSidInputs, Digits : DigitInputs]

\* Session stores in which a menu request can find the program: no session, a session
\* that has its doctor, and a session that has all the fields of a booking.
MenuStores ==
    LET empty == [k \in {} |-> None]
        sid == <<"C", "A", "1">>
        started == new_session(empty, sid, <<"J", "o">>)
        timed == set_field(started, sid, "time_text",
                           <<"M", "o", "n", "d", "a", "y", " ", "a", "t", " ", "2", " ", "P", "M">>)
        named == set_field(timed, sid, "name", <<"J", "o">>)
    IN  {empty, started, set_field(named, sid, "phone", <<"1", "2">>)}

ProcessNumericSelection ==
    /\ turn = NoTurn
    /\ \E form \in MenuForms, audio \in AudioOutcomes :
        LET r == process_numeric_selection(secure_session_data, form, [audio |-> audio])
        IN  Turn("process_numeric_selection", form, r)

MenuInit ==
    /\ secure_session_data \in MenuStores
    /\ bookings = [s \in CallSids |-> 0]
    /\ available = [s \in CallSids |-> {}]
    /\ turn = NoTurn
    /\ completed = <<>>
    /\ race = NoRace
    /\ appointments = {}
    /\ num_calls = NoCalls

MenuNext ==
    \/ ProcessNumericSelection
    \/ ReturnResponse

MenuSpec == MenuInit /\ [][MenuNext]_vars

-----------------------------------------------------------------------------
(* Two requests served concurrently.                                        *)
(*                                                                         *)
(* app.run serves each request in a thread of its own, and the handlers    *)
(* share the module-level dict secure_session_data without a lock. A       *)
(* session is a dict object: the store holds a reference to it, and so     *)
(* does the local variable session of a handler. A step is one statement   *)
(* of a handler that reads or writes the store or a session object, or one *)
(* call to a collaborator; the renderer's calls return.                    *)

Threads == {1, 2}

\* The call both requests belong to.
RaceSid == <<"C", "A", "1">>

\* The requests of the two threads: one per handler, each with a value its handler accepts.
RaceRequests ==
    {[handler |-> "capture_doctor_name",
      form |-> [CallSid |-> RaceSid, SpeechResult |-> <<"A", "l">>]],
     [handler |-> "capture_appointment_time",
      form |-> [CallSid |-> RaceSid,
                SpeechResult |-> <<"M", "o", "n", "d", "a", "y", " ", "a", "t", " ", "2", " ", "P", "M">>]],
     [handler |-> "capture_user_name",
      form |-> [CallSid |-> RaceSid, SpeechResult |-> <<"J", "o">>]],
     [handler |-> "capture_user_phone",
      form |-> [CallSid |-> RaceSid, SpeechResult |-> <<"1", "-", "2", " ">>]],
     [handler |-> "capture_user_address",
      form |-> [CallSid |-> RaceSid, SpeechResult |-> <<"R", "d">>]]}

\* The session stores in which the two requests find the program.
RaceStores ==
    LET empty == [k \in {} |-> None]
        started == new_session(empty, RaceSid, <<"J", "o">>)
        timed == set_field(started, RaceSid, "time_text",
                           <<"M", "o", "n", "d", "a", "y", " ", "a", "t", " ", "2", " ", "P", "M">>)
        named == set_field(timed, RaceSid, "name", <<"J", "o">>)
    IN  {empty, started, set_field(named, RaceSid, "phone", <<"1", "2">>)}

\* The renderer's calls return.
AudioReturns == [fail_at |-> 0, error_prompt_ok |-> TRUE]

\* The response of the except blocks.
ErrorResponse == except_block(<<>>, <<>>, AudioReturns).resp

\* d[key] = value on a dict
put(d, key, value) == [k \in DOMAIN d \cup {key} |-> IF k = key THEN value ELSE d[k]]

\* The field a handler writes to the session.
field_of(handler) ==
    CASE handler = "capture_appointment_time" -> "time_text"
      [] handler = "capture_user_name" -> "name"
      [] handler = "capture_user_phone" -> "phone"
      [] handler = "capture_user_address" -> "address"

\* The value a handler derives from SpeechResult.
value_of(handler, form) ==
    IF handler = "capture_user_phone"
    THEN remove_chars(remove_chars(_sanitize_input(form.SpeechResult), {" "}), {"-"})
    ELSE _sanitize_input(form.SpeechResult)

\* What a reader of secure_session_data finds: each key with the fields of its dict.
view(store, heap) == [k \in DOMAIN store |-> heap[store[k]]]

\* One step of thread t: its record, the store and the dict objects after the step.
RaceStep(t, thread, store, heap) ==
    /\ race' = [race EXCEPT !.th[t] = thread, !.store = store, !.heap = heap]
    /\ secure_session_data' = view(store, heap)
    /\ UNCHANGED <<bookings, available, turn, completed, appointments, num_calls>>

\* Thread t returns the response.
returns(t, resp) == [race.th[t] EXCEPT !.pc = "done", !.resp = resp]

\* Thread t goes on to the step pc.
goes(t, pc) == [race.th[t] EXCEPT !.pc = pc]

\* The first checks of a handler: the CallSid, its session, the value.
Check(t) ==
    LET me == race.th[t]
        call_sid == _sanitize_input(me.form.CallSid)
        value == value_of(me.handler, me.form)
    IN  /\ me.pc = "check"
        /\ IF me.handler = "capture_doctor_name"
           THEN IF call_sid = <<>>
                THEN RaceStep(t, returns(t, ErrorResponse), race.store, race.heap)
                ELSE IF value = <<>>
                THEN RaceStep(t, returns(t, TwiML(<<"No doctor name provided">>, "",
                                                  "/book-appointment", FALSE)),
                              race.store, race.heap)
                ELSE RaceStep(t, goes(t, "create"), race.store, race.heap)
           ELSE IF call_sid = <<>> \/ call_sid \notin DOMAIN race.store
                THEN RaceStep(t, returns(t, ErrorResponse), race.store, race.heap)
                ELSE IF value = <<>> \/ (me.handler = "capture_user_phone" /\ ~re_match_phone(value))
                THEN RaceStep(t, returns(t, ErrorResponse), race.store, race.heap)
                ELSE IF me.handler \in {"capture_user_name", "capture_user_phone"}
                THEN RaceStep(t, goes(t, "set_item"), race.store, race.heap)
                ELSE RaceStep(t, goes(t, "load"), race.store, race.heap)

\* capture_doctor_name: secure_session_data[call_sid] = {"doctor": doctor_name}, a new
\* dict, and the response.
CreateSession(t) ==
    LET me == race.th[t]
        call_sid == _sanitize_input(me.form.CallSid)
    IN  /\ me.pc = "create"
        /\ RaceStep(t,
                    returns(t, TwiML(<<"You said Doctor", "Please say the date and time",
                                       "Sorry, I didn't catch that">>,
                                     "/capture-appointment-time", "/book-appointment", FALSE)),
                    put(race.store, call_sid, t),
                    put(race.heap, t, [doctor |-> value_of(me.handler, me.form)]))

\* capture_user_name, capture_user_phone: secure_session_data[call_sid][field] = value
\* (KeyError when the session is gone), and the response.
SetItem(t) ==
    LET me == race.th[t]
        call_sid == _sanitize_input(me.form.CallSid)
    IN  /\ me.pc = "set_item"
        /\ IF call_sid \notin DOMAIN race.store
           THEN RaceStep(t, returns(t, ErrorResponse), race.store, race.heap)
           ELSE RaceStep(t,
                         returns(t, IF me.handler = "capture_user_name"
                                    THEN TwiML(<<"Now say your mobile number">>,
                                               "/capture-user-phone", "", FALSE)
                                    ELSE TwiML(<<"Please say your address">>,
                                               "/capture-user-address", "", FALSE)),
                         race.store,
                         set_field(race.heap, race.store[call_sid], field_of(me.handler),
                                   value_of(me.handler, me.form)))

\* capture_appointment_time, capture_user_address: session = secure_session_data[call_sid]
\* (KeyError when the session is gone).
Load(t) ==
    LET me == race.th[t]
        call_sid == _sanitize_input(me.form.CallSid)
    IN  /\ me.pc = "load"
        /\ IF call_sid \notin DOMAIN race.store
           THEN RaceStep(t, returns(t, ErrorResponse), race.store, race.heap)
           ELSE RaceStep(t, [me EXCEPT !.pc = "set", !.session = race.store[call_sid]],
                         race.store, race.heap)

\* capture_appointment_time, capture_user_address: session[field] = value
SetField(t) ==
    LET me == race.th[t]
    IN  /\ me.pc = "set"
        /\ RaceStep(t,
                    goes(t, IF me.handler = "capture_appointment_time"
                            THEN "write_back" ELSE "validate"),
                    race.store,
                    set_field(race.heap, me.session, field_of(me.handler),
                              value_of(me.handler, me.form)))

\* capture_appointment_time: secure_session_data[call_sid] = session
WriteBack(t) ==
    LET me == race.th[t]
        call_sid == _sanitize_input(me.form.CallSid)
    IN  /\ me.pc = "write_back"
        /\ RaceStep(t, goes(t, "check_availability"),
                    put(race.store, call_sid, me.session), race.heap)

\* capture_appointment_time: is_time_available(session["doctor"], time_text), and the
\* response.
CheckAvailability(t) ==
    LET me == race.th[t]
        session == race.heap[me.session]
    IN  /\ me.pc = "check_availability"
        /\ \E today \in Todays, get \in GetResponses :
            IF is_time_available(session.doctor, value_of(me.handler, me.form), today, get)
            THEN RaceStep(t, returns(t, TwiML(<<"is available at", "Please say your full name">>,
                                              "/capture-user-name", "", FALSE)),
                          race.store, race.heap)
            ELSE RaceStep(t, returns(t, TwiML(<<"is not available at",
                                                "Please say a different date and time">>,
                                              "/capture-appointment-time", "", FALSE)),
                          race.store, race.heap)

\* capture_user_address: the guest record is read from the session (KeyError when a
\* field is missing) and validated.
Validate(t) ==
    LET me == race.th[t]
        session == race.heap[me.session]
    IN  /\ me.pc = "validate"
        /\ IF ~({"name", "phone", "doctor", "time_text"} \subseteq DOMAIN session)
           THEN RaceStep(t, returns(t, ErrorResponse), race.store, race.heap)
           ELSE LET validated_guest == validate_input(guest_data_of(session))
                IN  IF validated_guest = None
                    THEN RaceStep(t, returns(t, ErrorResponse), race.store, race.heap)
                    ELSE RaceStep(t, [me EXCEPT !.pc = "create_appointment",
                                                !.validated_guest = validated_guest],
                                  race.store, race.heap)

\* capture_user_address: create_calendly_appointment with the fields of the session
CreateAppointment(t) ==
    LET me == race.th[t]
        session == race.heap[me.session]
    IN  /\ me.pc = "create_appointment"
        /\ \E today \in Todays, post \in PostResponses :
            LET calendly_link ==
                    create_calendly_appointment(session.doctor, Str_General,
                        [name |-> session.name, email |-> me.validated_guest.email],
                        session.time_text, today, post)
            IN  IF calendly_link = None
                THEN RaceStep(t, returns(t, ErrorResponse), race.store, race.heap)
                ELSE RaceStep(t, [me EXCEPT !.pc = "send_sms", !.calendly_link = calendly_link],
                              race.store, race.heap)

\* capture_user_address: send_confirmation_sms; what it returns is not looked at
SendSms(t) ==
    LET me == race.th[t]
        session == race.heap[me.session]
    IN  /\ me.pc = "send_sms"
        /\ \E twilio \in TwilioOutcomes :
            LET sms == send_confirmation_sms(session.phone, session.doctor, session.time_text,
                                             me.calendly_link, twilio)
            IN  RaceStep(t, [me EXCEPT !.pc = "clean_up", !.sms_returned = sms.returned],
                         race.store, race.heap)

\* capture_user_address: the final prompt, the hangup and
\* secure_session_data.pop(call_sid, None)
CleanUp(t) ==
    LET me == race.th[t]
        call_sid == _sanitize_input(me.form.CallSid)
    IN  /\ me.pc = "clean_up"
        /\ RaceStep(t,
                    returns(t, TwiML(<<"Confirming your booking details", "You want to book with",
                                       "Your name is", "Booking your appointment now",
                                       "successfully booked">>, "", "", TRUE)),
                    pop_session(race.store, call_sid), race.heap)

\* Two requests have arrived and a thread serves each; the session of the store is the
\* dict object 0, and the thread t creates the dict object t.
RaceInit ==
    /\ \E start \in RaceStores, requests \in [Threads -> RaceRequests] :
        /\ race = [start |-> start,
                   store |-> [k \in DOMAIN start |-> 0],
                   heap |-> [o \in {0 : k \in DOMAIN start} |-> start[RaceSid]],
                   th |-> [t \in Threads |->
                            [handler |-> requests[t].handler, form |-> requests[t].form,
                             pc |-> "check", session |-> -1, validated_guest |-> None,
                             calendly_link |-> None, sms_returned |-> FALSE,
                             resp |-> NoTurn.resp]]]
        /\ secure_session_data = start
    /\ bookings = [s \in CallSids |-> 0]
    /\ available = [s \in CallSids |-> {}]
    /\ turn = NoTurn
    /\ completed = <<>>
    /\ appointments = {}
    /\ num_calls = NoCalls

RaceNext ==
    \E t \in Threads :
        \/ Check(t)
        \/ CreateSession(t)
        \/ SetItem(t)
        \/ Load(t)
        \/ SetField(t)
        \/ WriteBack(t)
        \/ CheckAvailability(t)
        \/ Validate(t)
        \/ CreateAppointment(t)
        \/ SendSms(t)
        \/ CleanUp(t)

RaceSpec == RaceInit /\ [][RaceNext]_vars

\* The handler of a request run alone, as a turn.
serve(handler, store, form, env) ==
    CASE handler = "capture_doctor_name" -> capture_doctor_name(store, form, env)
      [] handler = "capture_appointment_time" -> capture_appointment_time(store, form, env)
      [] handler = "capture_user_name" -> capture_user_name(store, form, env)
      [] handler = "capture_user_phone" -> capture_user_phone(store, form, env)
      [] handler = "capture_user_address" -> capture_user_address(store, form, env)

\* What the collaborators can do during a turn whose renders return.
SerialOutcomes ==
    [audio : {AudioReturns}, today : Todays, get : GetResponses, post : PostResponses,
     twilio : TwilioOutcomes, slot : SlotStates]

\* The stores and responses that serving first the request of thread a, then the
\* request of thread b can end with.
serial(a, b) ==
    {[store |-> second.store, resp |-> [t \in {a, b} |-> IF t = a THEN first.resp ELSE second.resp]] :
        <<first, second>> \in
            UNION {{<<f, serve(race.th[b].handler, f.store, race.th[b].form, eb)>> :
                        eb \in SerialOutcomes} :
                   f \in {serve(race.th[a].handler, race.start, race.th[a].form, ea) :
                              ea \in SerialOutcomes}}}

-----------------------------------------------------------------------------
(* Properties of the booking dialogue.                                      *)

\* The turn made a create_calendly_appointment call that returned a booking link.
created(t) ==
    \E i \in DOMAIN t.calls :
        t.calls[i].op = "create_calendly_appointment" /\ t.calls[i].result # None

\* The turn made a create_calendly_appointment call that returned no link.
creation_failed(t) ==
    \E i \in DOMAIN t.calls :
        t.calls[i].op = "create_calendly_appointment" /\ t.calls[i].result = None

\* The turn made a send_confirmation_sms call.
sms_sent(t) == \E i \in DOMAIN t.calls : t.calls[i].op = "send_confirmation_sms"

\* The fields a finalization reads from the session.
BookingFields == {"doctor", "time_text", "name", "phone"}

\* The response of the except block, or none at all (the exception left the handler
\* and the route answers with an internal server error).
error_outcome(resp) ==
    \/ resp.raised
    \/ resp.redirect = "/book-appointment" /\ resp.gather = "" /\ ~resp.hangup
       /\ resp.prompts = <<"An error occurred">>

\* C1: at most one create_calendly_appointment call succeeds for a call identifier
\* between the creation of its session by capture_doctor_name and the removal of that
\* session.
C1_AtMostOneCreation == \A s \in CallSids : bookings[s] <= 1

\* C2: when create_calendly_appointment returned a booking link in a turn, the session
\* of that call identifier is absent once the handler has finished.
C2_SessionRemovedAfterCreation ==
    created(turn) => turn.call_sid \notin DOMAIN secure_session_data

\* C3: when create_calendly_appointment returns no link in capture_user_address, the
\* session is still there after the handler, with its doctor, time_text, name and phone
\* as they were before the turn, and the turn sent no confirmation SMS.
C3_CreationFailureKeepsSession ==
    [][creation_failed(turn') =>
        /\ turn'.handler = "capture_user_address"
        /\ turn'.call_sid \in DOMAIN secure_session_data'
        /\ BookingFields \subseteq DOMAIN secure_session_data'[turn'.call_sid]
        /\ \A f \in BookingFields :
            secure_session_data'[turn'.call_sid][f] = secure_session_data[turn'.call_sid][f]
        /\ ~sms_sent(turn')]_vars

\* A turn of capture_user_address in which the creation failed has finished.
C3_Witness ==
    /\ turn.handler = "capture_user_address"
    /\ creation_failed(turn)
    /\ turn.call_sid \in DOMAIN secure_session_data
    /\ secure_session_data[turn.call_sid].doctor = <<"J", "o">>

\* C4: a turn that creates an appointment makes exactly one create_calendly_appointment
\* call, with the session's doctor, time_text, name and the email derived from the name,
\* followed by exactly one send_confirmation_sms call to the session's phone with the
\* link the creation returned; a turn that ends the call successfully is such a turn,
\* and no turn calls send_confirmation_sms without having created an appointment.
C4_OneCreationThenOneSms ==
    [][/\ created(turn') =>
            LET session == secure_session_data[turn'.call_sid]
                create == turn'.calls[1]
                sms == turn'.calls[2]
            IN  /\ Len(turn'.calls) = 2
                /\ create.op = "create_calendly_appointment"
                /\ create.doctor = session.doctor
                /\ create.appointment_time = session.time_text
                /\ create.user_info =
                       [name |-> session.name,
                        email |-> replace_char(lower(session.name), " ", ".") \o Str_example_com]
                /\ sms.op = "send_confirmation_sms"
                /\ sms.to_number = session.phone
                /\ sms.doctor = session.doctor
                /\ sms.time = session.time_text
                /\ sms.calendly_link = create.result
       /\ turn'.resp.hangup => created(turn')
       /\ sms_sent(turn') => created(turn')]_vars

\* A finalization has succeeded: the appointment was created, the SMS was sent and the
\* call was ended.
C4_Witness ==
    /\ turn.handler = "capture_user_address"
    /\ created(turn)
    /\ sms_sent(turn)
    /\ turn.calls[2].result.returned
    /\ turn.resp.hangup

\* capture_user_address reached the validation of the guest record of the session
\* (store is the store before the turn) and validate_input rejected the record.
guest_validation_failed(store, t) ==
    /\ t.handler = "capture_user_address"
    /\ t.call_sid \in DOMAIN store
    /\ _sanitize_input(t.form.SpeechResult) # <<>>
    /\ BookingFields \subseteq DOMAIN store[t.call_sid]
    /\ validate_input(guest_data_of(store[t.call_sid])) = None

\* C5: when the guest record derived from the session fails validate_input in
\* capture_user_address, the turn ends with an error (the error response, or an
\* internal server error when the error prompt cannot be rendered), it calls neither
\* create_calendly_appointment nor send_confirmation_sms, and the session is still
\* present afterwards.
C5_ValidationFailureHasNoSideEffect ==
    [][guest_validation_failed(secure_session_data, turn') =>
        /\ error_outcome(turn'.resp)
        /\ turn'.calls = <<>>
        /\ turn'.call_sid \in DOMAIN secure_session_data']_vars

\* A turn of capture_user_address on a session whose guest record is rejected (the
\* name "J" is shorter than NameMinLength) has finished.
C5_Witness ==
    /\ guest_validation_failed(secure_session_data, turn)
    /\ secure_session_data[turn.call_sid].name = <<"J">>
    /\ "address" \in DOMAIN secure_session_data[turn.call_sid]

\* The order in which the dialogue collects the fields of a session.
FieldOrder == <<"doctor", "time_text", "name", "phone", "address">>

\* C6: the fields of every session are a prefix of the order doctor, time_text, name,
\* phone, address: no later field is present while an earlier one is absent.
C6_FieldsArePrefixOfOrder ==
    \A sid \in DOMAIN secure_session_data :
        \E n \in 1..Len(FieldOrder) :
            DOMAIN secure_session_data[sid] = {FieldOrder[i] : i \in 1..n}

\* The turn t, taken on the store, met a validation failure of its step: an empty
\* doctor, an empty time, a slot reported unavailable, an empty name, a phone that does
\* not match the pattern, an empty address, or a guest record that validate_input rejects.
validation_failure(store, t) ==
    LET speech == _sanitize_input(t.form.SpeechResult)
        phone == remove_chars(remove_chars(speech, {" "}), {"-"})
    IN  \/ t.handler = "capture_doctor_name" /\ t.call_sid # <<>> /\ speech = <<>>
        \/ /\ t.handler = "capture_appointment_time"
           /\ t.call_sid \in DOMAIN store
           /\ \/ speech = <<>>
              \/ \E i \in DOMAIN t.calls :
                    t.calls[i].op = "is_time_available" /\ ~t.calls[i].result
        \/ t.handler = "capture_user_name" /\ t.call_sid \in DOMAIN store /\ speech = <<>>
        \/ /\ t.handler = "capture_user_phone"
           /\ t.call_sid \in DOMAIN store
           /\ (phone = <<>> \/ ~re_match_phone(phone))
        \/ t.handler = "capture_user_address" /\ t.call_sid \in DOMAIN store /\ speech = <<>>
        \/ guest_validation_failed(store, t)

\* C7: a turn that meets a validation failure commits no field: the session store is
\* the same after the turn as before it.
C7_ValidationFailureCommitsNothing ==
    [][validation_failure(secure_session_data, turn') =>
        secure_session_data' = secure_session_data]_vars

\* C8: when capture_appointment_time, on a session that awaits its time (the doctor is
\* its only field), is told by is_time_available that the slot is not free, the response
\* gathers the next input to /capture-appointment-time, the doctor is unchanged and the
\* session still awaits its time (no time_text is stored).
C8_UnavailableStaysAwaitingTime ==
    [][(/\ turn'.handler = "capture_appointment_time"
        /\ turn'.call_sid \in DOMAIN secure_session_data
        /\ DOMAIN secure_session_data[turn'.call_sid] = {"doctor"}
        /\ \E i \in DOMAIN turn'.calls :
              turn'.calls[i].op = "is_time_available" /\ ~turn'.calls[i].result)
       =>
       /\ turn'.resp.gather = "/capture-appointment-time"
       /\ turn'.call_sid \in DOMAIN secure_session_data'
       /\ secure_session_data'[turn'.call_sid].doctor = secure_session_data[turn'.call_sid].doctor
       /\ "time_text" \notin DOMAIN secure_session_data'[turn'.call_sid]]_vars

\* C9: the doctor and time that a turn passes to a successful
\* create_calendly_appointment call are a pair for which is_time_available returned True
\* in an earlier turn of the same session.
C9_CreatedOnlyAfterPositiveCheck ==
    [][\A i \in DOMAIN turn'.calls :
        (turn'.calls[i].op = "create_calendly_appointment" /\ turn'.calls[i].result # None)
        => <<turn'.calls[i].doctor, turn'.calls[i].appointment_time>>
               \in available[turn'.call_sid]]_vars

\* C10: a turn of capture_appointment_time, capture_user_name, capture_user_phone or
\* capture_user_address whose call identifier is missing or has no session leaves the
\* session store as it was, calls no collaborator, and returns a response that
\* redirects to /book-appointment.
C10_OutOfOrderTurnRestarts ==
    [][(/\ turn'.handler \in {"capture_appointment_time", "capture_user_name",
                              "capture_user_phone", "capture_user_address"}
        /\ turn'.call_sid \notin DOMAIN secure_session_data)
       =>
       /\ secure_session_data' = secure_session_data
       /\ turn'.calls = <<>>
       /\ ~turn'.resp.raised
       /\ turn'.resp.redirect = "/book-appointment"]_vars

\* C11: every phone stored in a session, and every phone passed to
\* send_confirmation_sms, matches the pattern: an optional +, a digit 1-9, then 1 to 14
\* further digits.
C11_PhonesMatchPattern ==
    /\ \A sid \in DOMAIN secure_session_data :
        "phone" \in DOMAIN secure_session_data[sid]
            => phone_pattern(secure_session_data[sid].phone)
    /\ \A i \in DOMAIN turn.calls :
        turn.calls[i].op = "send_confirmation_sms" => phone_pattern(turn.calls[i].to_number)

\* C12: when capture_user_address is invoked for a call identifier right after the
\* invocation that completed the booking of that call identifier, it finds no session,
\* calls neither create_calendly_appointment nor send_confirmation_sms, and answers
\* with an error; the store stays without a session for that call identifier.
C12_SecondFinalStepFindsNoSession ==
    (turn.handler = "capture_user_address" /\ completed # <<>> /\ turn.call_sid = completed)
    => /\ turn.calls = <<>>
       /\ turn.call_sid \notin DOMAIN secure_session_data
       /\ error_outcome(turn.resp)

\* capture_user_address has been invoked a second time, right after the booking of the
\* same call identifier was completed.
C12_Witness ==
    /\ turn.handler = "capture_user_address"
    /\ completed # <<>>
    /\ turn.call_sid = completed
    /\ _sanitize_input(turn.form.SpeechResult) # <<>>

\* The route of each menu digit.
MenuRoutes ==
    [d \in {<<"1">>, <<"2">>, <<"3">>, <<"4">>} |->
        CASE d = <<"1">> -> "/book-appointment"
          [] d = <<"2">> -> "/cancel-appointment"
          [] d = <<"3">> -> "/reschedule-appointment"
          [] d = <<"4">> -> "/check-availability"]

\* C13: the response that process_numeric_selection returns answers the digits 1 to 4
\* with a redirect to their routes and the digit 5 with a dial of the human support
\* number; any other digits, no digits, or no call identifier, with a redirect to
\* /voice; and the handler leaves the session store as it was.
C13_MenuDispatch ==
    [][(turn'.handler = "process_numeric_selection" /\ ~turn'.resp.raised) =>
        /\ secure_session_data' = secure_session_data
        /\ IF turn'.form.CallSid = <<>> THEN turn'.resp.redirect = "/voice"
           ELSE IF turn'.form.Digits \in DOMAIN MenuRoutes
           THEN turn'.resp.redirect = MenuRoutes[turn'.form.Digits] /\ turn'.resp.dial = ""
           ELSE IF turn'.form.Digits = <<"5">>
           THEN turn'.resp.dial = HUMAN_SUPPORT_NUMBER /\ turn'.resp.redirect = ""
           ELSE turn'.resp.redirect = "/voice"]_vars

\* C14: removing a call identifier from the session store succeeds whether or not it
\* has a session; afterwards the call identifier has no session, and removing it again
\* changes nothing.
C14_PopIsIdempotent ==
    \A c \in CallSids :
        LET once == pop_session(secure_session_data, c)
            twice == pop_session(once, c)
        IN  /\ c \notin DOMAIN once
            /\ c \notin DOMAIN twice
            /\ twice = once

\* capture_user_address has removed the session of one call identifier while another
\* call identifier has a session.
C14_Witness ==
    /\ turn.handler = "capture_user_address"
    /\ turn.resp.hangup
    /\ turn.call_sid \notin DOMAIN secure_session_data
    /\ DOMAIN secure_session_data # {}

\* The session that a lookup for the call identifier raw, as it stands in the CallSid
\* field, finds in the store (None: no session).
lookup(store, raw) ==
    IF _sanitize_input(raw) \in DOMAIN store THEN store[_sanitize_input(raw)] ELSE None

\* C15: a turn for one call identifier leaves the session of every other call
\* identifier as it was: it neither changes nor deletes nor creates it.
C15_NoCrossCallLeakage ==
    [][turn'.handler # "none" =>
        \A other \in CallSidInputs \ {<<>>, turn'.form.CallSid} :
            lookup(secure_session_data', other) = lookup(secure_session_data, other)]_vars

\* C17: create_calendly_appointment creates an appointment only if the scheduling
\* service has the requested slot free at the moment of the creation.
C17_CreationRechecksAvailability ==
    \A i \in DOMAIN turn.calls :
        (turn.calls[i].op = "create_calendly_appointment" /\ turn.calls[i].result # None)
        => turn.calls[i].slot_free

\* The prompt of capture_appointment_time "I'm sorry, Dr. ... is not available at ...".
UnavailablePrompt == "is not available at"

\* The prompt of capture_user_address "Your appointment has been successfully booked.
\* A confirmation message has been sent to your phone."
ConfirmationSentPrompt == "successfully booked"

\* The prompts played by a response.
prompts_of(resp) == {resp.prompts[j] : j \in DOMAIN resp.prompts}

\* C18: when the request of is_time_available to the scheduling service raised or was
\* answered with an error status, the caller is not told that the slot is unavailable;
\* when send_confirmation_sms failed, the caller is not told that a confirmation
\* message was sent.
C18_FailureNotReportedAsOtherOutcome ==
    \A i \in DOMAIN turn.calls :
        /\ (/\ turn.calls[i].op = "is_time_available"
            /\ (turn.calls[i].response.raised \/ turn.calls[i].response.status_code # 200))
           => UnavailablePrompt \notin prompts_of(turn.resp)
        /\ (turn.calls[i].op = "send_confirmation_sms" /\ ~turn.calls[i].result.returned)
           => ConfirmationSentPrompt \notin prompts_of(turn.resp)

\* The route of each step after the doctor step (app.py /capture-... routes).
StepRoutes ==
    [h \in {"capture_appointment_time", "capture_user_name", "capture_user_phone",
            "capture_user_address"} |->
        CASE h = "capture_appointment_time" -> "/capture-appointment-time"
          [] h = "capture_user_name" -> "/capture-user-name"
          [] h = "capture_user_phone" -> "/capture-user-phone"
          [] h = "capture_user_address" -> "/capture-user-address"]

\* The turn carried a missing or empty value for its step, or a phone number that does
\* not match the pattern.
rejected_input(t) ==
    LET value == _sanitize_input(t.form.SpeechResult)
    IN  \/ value = <<>>
        \/ /\ t.handler = "capture_user_phone"
           /\ ~re_match_phone(remove_chars(remove_chars(value, {" "}), {"-"}))

\* C19: when a step handler (time, name, phone, address) rejects the value of a turn on
\* an existing session and answers, the session keeps the fields collected so far and
\* the response leads the caller back to the handler's own step, not to
\* /book-appointment (the doctor step).
C19_BadInputRepromptsSameStep ==
    [][(/\ turn'.handler \in DOMAIN StepRoutes
        /\ turn'.call_sid \in DOMAIN secure_session_data
        /\ rejected_input(turn')
        /\ ~turn'.resp.raised)
       => /\ secure_session_data' = secure_session_data
          /\ StepRoutes[turn'.handler] \in {turn'.resp.gather, turn'.resp.redirect}
          /\ turn'.resp.redirect # "/book-appointment"]_vars

\* The half of C19 that the handlers keep: a rejected value leaves the session as it was.
C19_RejectedInputKeepsSession ==
    [][(/\ turn'.handler \in DOMAIN StepRoutes
        /\ turn'.call_sid \in DOMAIN secure_session_data
        /\ rejected_input(turn'))
       => secure_session_data' = secure_session_data]_vars

\* C20: for every string a capture handler passes to _sanitize_input (the CallSid and
\* the SpeechResult of its request), the result holds none of the characters < > ; { },
\* has no leading or trailing whitespace, is empty for an empty input, and is returned
\* unchanged when the sanitizer is applied to it again.
C20_SanitizerContract ==
    turn.handler \in DOMAIN StepRoutes \cup {"capture_doctor_name"} =>
        \A raw \in {turn.form.CallSid, turn.form.SpeechResult} :
            LET out == _sanitize_input(raw)
            IN  /\ \A i \in DOMAIN out : out[i] \notin Unsafe
                /\ out # <<>> => (out[1] \notin Whitespace /\ out[Len(out)] \notin Whitespace)
                /\ raw = <<>> => out = <<>>
                /\ _sanitize_input(out) = out

\* The part of C20 that _sanitize_input keeps: no character of < > ; { } is left, and
\* an empty input gives an empty result.
C20_UnsafeCharactersRemoved ==
    turn.handler \in DOMAIN StepRoutes \cup {"capture_doctor_name"} =>
        \A raw \in {turn.form.CallSid, turn.form.SpeechResult} :
            LET out == _sanitize_input(raw)
            IN  /\ \A i \in DOMAIN out : out[i] \notin Unsafe
                /\ raw = <<>> => out = <<>>

\* Both threads have returned their responses.
RaceOver == DOMAIN race.th = Threads /\ \A t \in Threads : race.th[t].pc = "done"

\* C16: when two requests of one call have been served concurrently, the session store
\* and the two responses are those that serving the two requests one after the other,
\* in one of the two orders, can end with.
C16_PerCallLinearizable ==
    RaceOver =>
        \E order \in {<<1, 2>>, <<2, 1>>} :
            \E s \in serial(order[1], order[2]) :
                /\ s.store = secure_session_data
                /\ \A t \in Threads : s.resp[t] = race.th[t].resp

\* C21: when capture_doctor_name accepts a doctor name for a call that already has a
\* session, the session keeps every other field it held, with its value.
C21_DoctorStepMergesIntoSession ==
    [][(/\ turn'.handler = "capture_doctor_name"
        /\ turn'.call_sid \in DOMAIN secure_session_data
        /\ _sanitize_input(turn'.form.SpeechResult) # <<>>)
       => /\ turn'.call_sid \in DOMAIN secure_session_data'
          /\ \A f \in DOMAIN secure_session_data[turn'.call_sid] \ {"doctor"} :
                /\ f \in DOMAIN secure_session_data'[turn'.call_sid]
                /\ secure_session_data'[turn'.call_sid][f] = secure_session_data[turn'.call_sid][f]]_vars

-----------------------------------------------------------------------------
(* The happy path: a caller who answers each prompt with a valid value,     *)
(* while the scheduling service has the slot free and creates the           *)
(* appointment, and the renderer's calls return.                            *)

\* The steps of the dialogue, in the order of the prompts, and the route each response
\* of a step gathers the next value for ("": the last step ends the call).
HappySteps ==
    <<"capture_doctor_name", "capture_appointment_time", "capture_user_name",
      "capture_user_phone", "capture_user_address">>

NextGather ==
    <<"/capture-appointment-time", "/capture-user-name", "/capture-user-phone",
      "/capture-user-address", "">>

\* What the caller says at each step: values the step accepts and GuestInfo accepts.
HappyValues ==
    <<{<<" ", "J", "o", ";">>},
      {<<"M", "o", "n", "d", "a", "y", " ", "a", "t", " ", "2", " ", "P", "M">>},
      {<<"J", "o">>, <<"A", "l", " ", "B">>},
      {<<"1", "-", "2", " ">>, <<"1", "2", "\n", ";">>},
      {<<"R", "d">>}>>

\* The slot is free, the creation answers 201 with a booking link, the renders return.
HappyOutcomes ==
    [audio : {AudioReturns}, today : Todays,
     get : {r \in SlotStates : r.events = 0},
     post : {r \in PostResponses : ~r.raised /\ r.status_code = 201},
     twilio : TwilioOutcomes,
     slot : {r \in SlotStates : r.events = 0}]

\* The k-th turn of a call arrives: the call has no session (k = 1) or a session that
\* holds the fields of the k - 1 steps before.
HappyTurn(k) ==
    /\ turn = NoTurn
    /\ \E sid \in CallSids, value \in HappyValues[k], env \in HappyOutcomes :
        LET form == [CallSid |-> sid, SpeechResult |-> value]
        IN  /\ IF k = 1 THEN sid \notin DOMAIN secure_session_data
               ELSE /\ sid \in DOMAIN secure_session_data
                    /\ DOMAIN secure_session_data[sid] = {FieldOrder[i] : i \in 1..(k - 1)}
            /\ Turn(HappySteps[k], form, serve(HappySteps[k], secure_session_data, form, env))

HappyNext ==
    \/ \E k \in DOMAIN HappySteps : HappyTurn(k)
    \/ ReturnResponse

HappySpec == Init /\ [][HappyNext]_vars

\* C22: on the happy path every turn but the last stores its value and answers with a
\* Gather for the next step; the last turn creates one appointment, ends the call and
\* removes the session.
C22_HappyPathProgress ==
    [][\A k \in DOMAIN HappySteps :
        turn'.handler = HappySteps[k] =>
            /\ ~turn'.resp.raised
            /\ turn'.resp.gather = NextGather[k]
            /\ IF k < Len(HappySteps)
               THEN /\ turn'.call_sid \in DOMAIN secure_session_data'
                    /\ DOMAIN secure_session_data'[turn'.call_sid] = {FieldOrder[i] : i \in 1..k}
                    /\ ~turn'.resp.hangup
               ELSE /\ successful_creations(turn'.calls) = 1
                    /\ turn'.resp.hangup
                    /\ turn'.resp.redirect = ""
                    /\ turn'.call_sid \notin DOMAIN secure_session_data']_vars

\* The fifth turn of a call has completed the dialogue while another call is under way.
C22_Witness ==
    /\ turn.handler = "capture_user_address"
    /\ turn.resp.hangup
    /\ successful_creations(turn.calls) = 1
    /\ turn.call_sid \notin DOMAIN secure_session_data
    /\ DOMAIN secure_session_data # {}

-----------------------------------------------------------------------------
(* All the routes of one call: the greeting, the menu, the start of the     *)
(* booking and the five capture steps.                                      *)

\* A faulty variant of handle_booking, for testing that the ownership properties of the
\* session store tell it from handle_booking: starting a booking clears the store.
handle_booking_resetting(store, env) ==
    [store |-> [k \in {} |-> None],
     calls |-> <<>>,
     resp |-> TwiML(<<"Please say the name of the doctor", "Sorry, I didn't get that">>,
                    "/capture-doctor-name", "/book-appointment", FALSE)]

\* booking_handler.handle_booking(): two prompts, a Gather for the doctor name and a
\* redirect; its except block renders an error prompt and hangs up.
handle_booking(store, env) ==
    [store |-> store,
     calls |-> <<>>,
     resp |-> IF rendered(2, env.audio)
              THEN TwiML(<<"Please say the name of the doctor", "Sorry, I didn't get that">>,
                         "/capture-doctor-name", "/book-appointment", FALSE)
              ELSE IF env.audio.error_prompt_ok
              THEN TwiML(<<"An error occurred">>, "", "", TRUE)
              ELSE Raised]

\* twilio_handler.handle_call(request_obj): the greeting and the keypad menu; without a
\* CallSid, and in its except block, an error prompt and a redirect to /voice.
handle_call(store, form, env) ==
    LET call_sid == _sanitize_input(form.CallSid)
        error == IF env.audio.error_prompt_ok
                 THEN TwiML(<<"An error occurred">>, "", "/voice", FALSE)
                 ELSE Raised
    IN  [store |-> store,
         calls |-> <<>>,
         resp |-> IF call_sid = <<>>
                  THEN IF rendered(1, env.audio)
                       THEN TwiML(<<"An error occurred">>, "", "/voice", FALSE)
                       ELSE error
                  ELSE IF rendered(3, env.audio)
                  THEN TwiML(<<"Hello", "Please select an option", "We didn't receive any input">>,
                             "/process-selection", "/voice", FALSE)
                  ELSE error]

\* The requests of one call: its CallSid, or none.
OneCallSids == {<<>>, RaceSid}

\* What the caller may say at each step.
StepInputs == <<DoctorInputs, TimeInputs, NameInputs, PhoneInputs, AddressInputs>>

\* What the renderer and the collaborators of the k-th step can do.
StepOutcomes(k) ==
    IF k = 2 THEN [audio : AudioOutcomes, today : Todays, get : GetResponses]
    ELSE IF k = 5
    THEN {[audio |-> a, today |-> o.today, post |-> o.post, twilio |-> o.twilio, slot |-> o.slot] :
            a \in AudioOutcomes, o \in AddressOutcomes}
    ELSE [audio : AudioOutcomes]

\* POST /voice
Voice ==
    /\ turn = NoTurn
    /\ \E sid \in OneCallSids, audio \in AudioOutcomes :
        LET form == [CallSid |-> sid, SpeechResult |-> <<>>]
        IN  Turn("handle_call", form, handle_call(secure_session_data, form, [audio |-> audio]))

\* POST /book-appointment
BookAppointment ==
    /\ turn = NoTurn
    /\ \E sid \in OneCallSids, audio \in AudioOutcomes :
        Turn("handle_booking", [CallSid |-> sid, SpeechResult |-> <<>>],
             handle_booking(secure_session_data, [audio |-> audio]))

\* POST /capture-doctor-name, ..., /capture-user-address: the k-th step
Capture(k) ==
    /\ turn = NoTurn
    /\ k = 5 => \A s \in CallSids : bookings[s] < MaxBookings
    /\ \E form \in [CallSid : OneCallSids, SpeechResult : StepInputs[k]] :
        \E env \in Outcomes(form, {o \in StepOutcomes(k) :
                                     passes_first_checks(form) \/ o.audio.fail_at = 0}) :
            Turn(HappySteps[k], form, serve(HappySteps[k], secure_session_data, form, env))

AppNext ==
    \/ Voice
    \/ ProcessNumericSelection
    \/ BookAppointment
    \/ \E k \in DOMAIN HappySteps : Capture(k)
    \/ ReturnResponse

AppSpec == Init /\ [][AppNext]_vars

\* C23: a turn changes the session store only if it is a turn of a capture handler; a
\* session appears only in a capture_doctor_name turn with a non-empty doctor name, as
\* the session of that turn's call holding that doctor; a session disappears only in a
\* capture_user_address turn of its call that created an appointment.
C23_OnlyStepHandlersMutateStore ==
    [][/\ secure_session_data' # secure_session_data =>
            \E k \in DOMAIN HappySteps : turn'.handler = HappySteps[k]
       /\ \A s \in CallSids :
            (s \notin DOMAIN secure_session_data /\ s \in DOMAIN secure_session_data') =>
                /\ turn'.handler = "capture_doctor_name"
                /\ turn'.call_sid = s
                /\ _sanitize_input(turn'.form.SpeechResult) # <<>>
                /\ secure_session_data'[s] = [doctor |-> _sanitize_input(turn'.form.SpeechResult)]
       /\ \A s \in CallSids :
            (s \in DOMAIN secure_session_data /\ s \notin DOMAIN secure_session_data') =>
                /\ turn'.handler = "capture_user_address"
                /\ turn'.call_sid = s
                /\ successful_creations(turn'.calls) = 1]_vars

\* A booking is started again, or the menu is answered, while the call has a session
\* with all its fields.
C23_Witness ==
    /\ turn.handler \in {"handle_booking", "handle_call", "process_numeric_selection"}
    /\ turn.call_sid \in DOMAIN secure_session_data
    /\ BookingFields \subseteq DOMAIN secure_session_data[turn.call_sid]

-----------------------------------------------------------------------------
(* Properties of concurrent requests.                                       *)

\* C24: when the two concurrent requests are capture_user_address requests of one call,
\* at most one of them gets a booking link from create_calendly_appointment and at
\* most one confirmation SMS is sent.
C24_ConcurrentFinalStepsCreateOnce ==
    (/\ DOMAIN race.th = Threads
     /\ \A t \in Threads : race.th[t].handler = "capture_user_address")
    => /\ Cardinality({t \in Threads : race.th[t].calendly_link # None}) <= 1
       /\ Cardinality({t \in Threads : race.th[t].sms_returned}) <= 1

-----------------------------------------------------------------------------
(* Two calls and a scheduling service that remembers what it created: it    *)
(* reports a slot free until an appointment was created for it.             *)

\* The scheduling service holds an appointment for the slot.
taken(doctor, time_text) ==
    \E a \in appointments : a.doctor = doctor /\ a.time_text = time_text

\* What GET /scheduled_events answers for the slot.
slot_state(doctor, time_text) ==
    [raised |-> FALSE, status_code |-> 200, events |-> IF taken(doctor, time_text) THEN 1 ELSE 0]

\* The appointments that the create_calendly_appointment calls of a turn created.
created_appointments(call_sid, calls) ==
    {[call_sid |-> call_sid, doctor |-> calls[i].doctor, time_text |-> calls[i].appointment_time] :
        i \in {j \in DOMAIN calls :
                calls[j].op = "create_calendly_appointment" /\ calls[j].result # None}}

\* The k-th turn of a call arrives, in the order of the prompts; the scheduling service
\* answers the availability request from what it holds, and the creation request with
\* 201 or with an error.
CalendarTurn(k) ==
    /\ turn = NoTurn
    /\ \E sid \in CallSids, value \in HappyValues[k], twilio \in TwilioOutcomes,
          post \in {r \in PostResponses : ~r.raised} :
        LET form == [CallSid |-> sid, SpeechResult |-> value]
            has_session == sid \in DOMAIN secure_session_data
            doctor == IF has_session THEN secure_session_data[sid].doctor ELSE <<>>
            time_text == IF k = 2 THEN _sanitize_input(value)
                         ELSE IF has_session /\ "time_text" \in DOMAIN secure_session_data[sid]
                         THEN secure_session_data[sid].time_text ELSE <<>>
            env == [audio |-> AudioReturns, today |-> CHOOSE d \in Todays : TRUE,
                    get |-> slot_state(doctor, time_text), post |-> post, twilio |-> twilio,
                    slot |-> slot_state(doctor, time_text)]
            r == serve(HappySteps[k], secure_session_data, form, env)
        IN  /\ IF k = 1 THEN ~has_session
               ELSE /\ has_session
                    /\ DOMAIN secure_session_data[sid] = {FieldOrder[i] : i \in 1..(k - 1)}
            /\ TurnEffect(HappySteps[k], form, r)
            /\ appointments' = appointments \cup created_appointments(sid, r.calls)
            /\ UNCHANGED num_calls

CalendarNext ==
    \/ \E k \in DOMAIN HappySteps : CalendarTurn(k)
    \/ ReturnResponse

CalendarSpec == Init /\ [][CalendarNext]_vars

\* C25: the scheduling service never holds appointments of two different calls for the
\* same doctor and the same time.
C25_NoDoubleBookingAcrossCalls ==
    \A a, b \in appointments :
        (a.doctor = b.doctor /\ a.time_text = b.time_text) => a.call_sid = b.call_sid

-----------------------------------------------------------------------------
(* Properties of the stored values.                                         *)

\* C26: a session that holds the values its steps accepted (doctor, time, name and
\* phone) passes the guest validation of capture_user_address.
C26_AcceptedValuesPassGuestValidation ==
    \A sid \in DOMAIN secure_session_data :
        BookingFields \subseteq DOMAIN secure_session_data[sid] =>
            validate_input(guest_data_of(secure_session_data[sid])) # None

-----------------------------------------------------------------------------
(* The two operations of services/calendly.py on their own: for a doctor    *)
(* and a time text, the availability check and then the creation.           *)

\* Doctor names: none, one that is empty after sanitization, the doctor of
\* DOCTOR_EVENT_MAP, and a doctor that is absent from it.
OracleDoctors == {<<>>, <<" ", ";">>, <<"J", "o">>, <<"A", "l">>}

\* Time texts: none, the documented forms, and texts that _parse_datetime rejects
\* (no " at ", a day that is none, no hour, an hour beyond 23).
OracleTimes ==
    {<<>>,
     <<"M", "o", "n", "d", "a", "y", " ", "a", "t", " ", "2", " ", "P", "M">>,
     <<"2", "0", "2", "5", "-", "0", "6", "-", "0", "1">>,
     <<"s", "o", "o", "n">>,
     <<"F", "u", "n", "d", "a", "y", " ", "a", "t", " ", "2">>,
     <<"M", "o", "n", "d", "a", "y", " ", "a", "t", " ", "n", "o", "o", "n">>,
     <<"M", "o", "n", "d", "a", "y", " ", "a", "t", " ", "2", "5">>}

\* is_time_available(doctor, time_text) and create_calendly_appointment(doctor,
\* "general", user_info, time_text) are called, with a guest that passes validation.
AskCalendly ==
    /\ turn = NoTurn
    /\ \E doctor \in OracleDoctors, time_text \in OracleTimes, today \in Todays,
          get \in GetResponses, post \in PostResponses :
        LET user_info == [name |-> <<"J", "o">>, email |-> Str_guest_email]
        IN  turn' = [handler |-> "calendly",
                     form |-> [CallSid |-> <<>>, SpeechResult |-> <<>>],
                     call_sid |-> <<>>,
                     calls |-> <<[op |-> "is_time_available", doctor |-> doctor,
                                  time_text |-> time_text, today |-> today, response |-> get,
                                  result |-> is_time_available(doctor, time_text, today, get)],
                                 [op |-> "create_calendly_appointment", doctor |-> doctor,
                                  department |-> Str_General, user_info |-> user_info,
                                  appointment_time |-> time_text, response |-> post,
                                  result |-> create_calendly_appointment(doctor, Str_General,
                                                 user_info, time_text, today, post)]>>,
                     resp |-> NoTurn.resp]
    /\ UNCHANGED <<secure_session_data, bookings, available, completed, race, appointments, num_calls>>

CalendlyNext ==
    \/ AskCalendly
    \/ ReturnResponse

CalendlySpec == Init /\ [][CalendlyNext]_vars

\* C27: when is_time_available returns True for a doctor, the pair of that doctor and
\* the department "general" is a key of DOCTOR_EVENT_MAP, so that
\* create_calendly_appointment resolves an event type for it.
C27_AvailableDoctorsAreBookable ==
    turn.handler = "calendly" =>
        (turn.calls[1].result =>
            <<calendly_sanitize_input(turn.calls[1].doctor), calendly_sanitize_input(Str_General)>>
                \in DOMAIN DOCTOR_EVENT_MAP)

\* C30: is_time_available returns False when the doctor name is empty after
\* sanitization, when the time text cannot be parsed, when the request raised and when
\* the answer's status is not 200; it returns True only for an answer 200 with no event.
C30_AvailabilityFailsClosed ==
    turn.handler = "calendly" =>
        LET check == turn.calls[1]
        IN  /\ calendly_sanitize_input(check.doctor) = <<>> => ~check.result
            /\ _parse_datetime(check.time_text, check.today) = None => ~check.result
            /\ (check.response.raised \/ check.response.status_code # 200) => ~check.result
            /\ check.result => /\ ~check.response.raised
                               /\ check.response.status_code = 200
                               /\ check.response.events = 0

\* The request for a known doctor and a parseable time raised or was answered with an
\* error status.
C30_Witness ==
    /\ turn.handler = "calendly"
    /\ calendly_sanitize_input(turn.calls[1].doctor) # <<>>
    /\ _parse_datetime(turn.calls[1].time_text, turn.calls[1].today) # None
    /\ turn.calls[1].response.raised \/ turn.calls[1].response.status_code # 200
    /\ ~turn.calls[1].result

-----------------------------------------------------------------------------
(* One call whose caller's speech is transcribed as blanks and punctuation. *)

\* SpeechResult values made of whitespace and of the characters _sanitize_input removes.
BlankInputs == {<<" ">>, <<";">>, <<";", " ", ";">>, <<"{", "\t", "}">>}

\* The k-th step is asked with a blank or with a valid value, while the collaborators
\* answer as on the happy path.
SpeechTurn(k) ==
    /\ turn = NoTurn
    /\ k = 5 => \A s \in CallSids : bookings[s] < MaxBookings
    /\ \E value \in BlankInputs \cup HappyValues[k], env \in HappyOutcomes :
        LET form == [CallSid |-> RaceSid, SpeechResult |-> value]
        IN  Turn(HappySteps[k], form, serve(HappySteps[k], secure_session_data, form, env))

SpeechNext ==
    \/ \E k \in DOMAIN HappySteps : SpeechTurn(k)
    \/ ReturnResponse

SpeechSpec == Init /\ [][SpeechNext]_vars

\* C28: no session holds a doctor, time_text, name or address that is empty or consists
\* of whitespace only.
C28_StoredValuesAreNotBlank ==
    \A sid \in DOMAIN secure_session_data :
        \A f \in DOMAIN secure_session_data[sid] \cap {"doctor", "time_text", "name", "address"} :
            strip(secure_session_data[sid][f]) # <<>>

-----------------------------------------------------------------------------
(* Properties of the responses.                                             *)

\* C29: every turn of a capture handler ends with a TwiML response; no exception leaves
\* the handler.
C29_HandlersAlwaysAnswer ==
    (\E k \in DOMAIN HappySteps : turn.handler = HappySteps[k]) => ~turn.resp.raised

-----------------------------------------------------------------------------
(* services/messaging.py on its own: send_confirmation_sms for every kind   *)
(* of argument and every behaviour of the SMS provider.                     *)

\* Destination numbers: none, valid ones, one the pattern rejects, one that is valid
\* once sanitized, and one that is empty once sanitized.
SmsNumbers ==
    {<<>>, <<"1", "2">>, <<"+", "1", "2">>, <<"0">>, <<";", " ", "1", "2">>, <<" ", ";">>}

\* Doctor names: none, a name, one that is empty once sanitized, one that is a blank
\* once sanitized.
SmsDoctors == {<<>>, <<"J", "o">>, <<";">>, <<";", " ", ";">>}

\* Appointment times: none, a time, a blank.
SmsTimes == {<<>>, <<"M", "o", "n", "d", "a", "y", " ", "a", "t", " ", "2", " ", "P", "M">>, <<" ">>}

\* Booking links: none, the link of Calendly, one with another scheme, one without host.
SmsLinks ==
    {None, BookingUrl,
     [scheme |-> "ftp", netloc |-> "calendly.com", path |-> "/d/abc-123"],
     [scheme |-> "https", netloc |-> "", path |-> "/d/abc-123"]}

\* What Client(...) and client.messages.create can do: send, raise the exception of
\* the Twilio library, raise any other exception (a connection error).
SmsProviderOutcomes == TwilioOutcomes \cup {"Exception"}

\* send_confirmation_sms(to_number, doctor, time, calendly_link) is called.
SendConfirmationSms ==
    /\ turn = NoTurn
    /\ \E to_number \in SmsNumbers, doctor \in SmsDoctors, time \in SmsTimes,
          calendly_link \in SmsLinks, twilio \in SmsProviderOutcomes :
        turn' = [handler |-> "messaging",
                 form |-> NoTurn.form,
                 call_sid |-> <<>>,
                 calls |-> <<[op |-> "send_confirmation_sms", to_number |-> to_number,
                              doctor |-> doctor, time |-> time,
                              calendly_link |-> calendly_link, twilio |-> twilio,
                              result |-> send_confirmation_sms(to_number, doctor, time,
                                                               calendly_link, twilio)]>>,
                 resp |-> NoTurn.resp]
    /\ UNCHANGED <<secure_session_data, bookings, available, completed, race, appointments, num_calls>>

SmsNext ==
    \/ SendConfirmationSms
    \/ ReturnResponse

SmsSpec == Init /\ [][SmsNext]_vars

\* C31: send_confirmation_sms always returns a boolean (it never raises); it returns
\* False whenever the provider failed, whichever exception that was; it returns True
\* only when a message was handed to the provider and sent; and no message is sent
\* when the number, the doctor or the time is empty once sanitized, when the number
\* does not match the phone pattern, or when the link is none, has a scheme other than
\* http and https, or has no host.
C31_SmsIsBestEffort ==
    turn.handler = "messaging" =>
        LET call == turn.calls[1]
            number == strip(remove_chars(strip(call.to_number), Unsafe))
            missing == \/ number = <<>>
                       \/ remove_chars(strip(call.doctor), Unsafe) = <<>>
                       \/ remove_chars(strip(call.time), Unsafe) = <<>>
                       \/ call.calendly_link = None
            invalid == \/ ~phone_pattern(number)
                       \/ call.calendly_link # None
                            /\ (call.calendly_link.scheme \notin {"http", "https"}
                                \/ call.calendly_link.netloc = "")
        IN  /\ call.result.returned \in BOOLEAN
            /\ call.twilio # "sent" => ~call.result.returned
            /\ call.result.returned <=> call.result.message # None
            /\ call.result.returned => call.twilio = "sent"
            /\ (missing \/ invalid) => call.result.message = None
            /\ call.result.message # None =>
                   /\ call.result.message.to = number
                   /\ call.result.message.link = call.calendly_link

\* The provider raised for a message whose number, doctor, time and link were all
\* accepted, and the function returned False.
C31_Witness ==
    /\ turn.handler = "messaging"
    /\ phone_pattern(strip(remove_chars(strip(turn.calls[1].to_number), Unsafe)))
    /\ turn.calls[1].doctor = <<"J", "o">>
    /\ turn.calls[1].time # <<>> /\ turn.calls[1].time # <<" ">>
    /\ turn.calls[1].calendly_link = BookingUrl
    /\ turn.calls[1].twilio = "Exception"
    /\ turn.calls[1].result = [returned |-> FALSE, message |-> None]

-----------------------------------------------------------------------------
(* Time texts of the form "<weekday> at <hour> AM|PM" parsed on every day   *)
(* of the week.                                                             *)

\* _parse_datetime(time_text) is called on a day whose weekday is today.
ParseDatetime ==
    /\ turn = NoTurn
    /\ \E day \in DOMAIN DayNames, said \in SaidHours, meridiem \in Meridiems, today \in Weekdays :
        LET time_text == DayNames[day] \o Str_at \o numeral(said) \o <<" ">> \o meridiem
        IN  turn' = [handler |-> "_parse_datetime",
                     form |-> NoTurn.form,
                     call_sid |-> <<>>,
                     calls |-> <<[op |-> "_parse_datetime", time_text |-> time_text,
                                  day |-> day - 1, said |-> said, meridiem |-> meridiem,
                                  today |-> today,
                                  result |-> _parse_datetime(time_text, today)]>>,
                     resp |-> NoTurn.resp]
    /\ UNCHANGED <<secure_session_data, bookings, available, completed, race, appointments, num_calls>>

ParseNext ==
    \/ ParseDatetime
    \/ ReturnResponse

ParseSpec == Init /\ [][ParseNext]_vars

\* C32: for a time text "<weekday> at <hour>" with an hour of the clock, the date that
\* _parse_datetime returns falls on the named weekday and lies 1 to 7 days after the
\* current date, never on the current date, whatever the current weekday is.
C32_NextOccurrenceOfNamedDay ==
    turn.handler = "_parse_datetime" =>
        LET call == turn.calls[1]
        IN  call.said \in 1..12 =>
                /\ call.result # None
                /\ call.result.weekday = call.day
                /\ call.result.days_ahead \in 1..7
                /\ (call.today + call.result.days_ahead) % 7 = call.day
                /\ call.day = call.today => call.result.days_ahead = 7

\* The named weekday is the current weekday, and the date returned is a week ahead.
C32_Witness ==
    /\ turn.handler = "_parse_datetime"
    /\ turn.calls[1].day = turn.calls[1].today
    /\ turn.calls[1].said \in 1..12
    /\ turn.calls[1].result # None
    /\ turn.calls[1].result.days_ahead = 7

\* C33: for "<weekday> at H AM" and "<weekday> at H PM" with H from 1 to 12,
\* _parse_datetime returns the hour of the 24-hour clock that the text denotes (H PM
\* is H + 12 for H below 12 and 12 for H = 12; H AM is H for H below 12 and 0 for
\* H = 12); for an hour that the clock does not have (24 and beyond) it returns None.
C33_HourOfTheTwelveHourClock ==
    turn.handler = "_parse_datetime" =>
        LET call == turn.calls[1]
            denoted == IF call.meridiem = <<"P", "M">>
                       THEN (IF call.said = 12 THEN 12 ELSE call.said + 12)
                       ELSE (IF call.said = 12 THEN 0 ELSE call.said)
        IN  /\ call.said \in 1..12 => call.result # None /\ call.result.hour = denoted
            /\ call.said > 23 => call.result = None

-----------------------------------------------------------------------------
(* app.py: the HTTP routes. Every route function is wrapped, from the       *)
(* outside in, by require_api_key, limits(calls=CALLS, period=PERIOD) and   *)
(* handle_exceptions, and Flask turns what leaves the outermost wrapper     *)
(* into the HTTP response.                                                  *)

CALLS == 100

\* Authorized requests served beyond the limit within one period.
MaxExcess == 1

\* The X-API-Key header: missing, a key that does not hash to API_KEY_HASH, the key
\* that does.
ApiKeys == {"", "wrong-key", "the-key"}

\* check_password_hash(API_KEY_HASH, api_key)
check_password_hash(api_key) == api_key = "the-key"

\* The Content-Type of a request body: JSON, or the form encoding of a Twilio webhook.
ContentTypes == {"application/json", "application/x-www-form-urlencoded"}

\* The requests: a route, the key header, and a body of either type that carries the
\* fields CallSid, SpeechResult and Digits.
Requests ==
    [route : Routes, api_key : ApiKeys, content_type : ContentTypes,
     CallSid : OneCallSids, SpeechResult : {<<>>, <<"J", "o">>}, Digits : {<<>>, <<"1">>}]

\* request.is_json
is_json(req) == req.content_type = "application/json"

\* request.form: the fields of a form-encoded body; for any other body it is empty,
\* and form.get(key, "") returns "".
request_form(req) ==
    IF req.content_type = "application/x-www-form-urlencoded"
    THEN [CallSid |-> req.CallSid, SpeechResult |-> req.SpeechResult, Digits |-> req.Digits]
    ELSE [CallSid |-> <<>>, SpeechResult |-> <<>>, Digits |-> <<>>]

\* The dialogue handler that each route function imports and calls.
RouteHandlers ==
    [route \in Routes |->
        CASE route = "/voice" -> "handle_call"
          [] route = "/process-intent" -> "process_user_intent"
          [] route = "/process-selection" -> "process_numeric_selection"
          [] route = "/book-appointment" -> "handle_booking"
          [] route = "/capture-doctor-name" -> "capture_doctor_name"
          [] route = "/capture-appointment-time" -> "capture_appointment_time"
          [] route = "/capture-user-name" -> "capture_user_name"
          [] route = "/capture-user-phone" -> "capture_user_phone"
          [] route = "/capture-user-address" -> "capture_user_address"]

\* What a wrapped function ends with: the exception that leaves it ("" when it
\* returns), the status and error body or the TwiML it returns, the dialogue handler
\* that ran ("" when none did), the store and the limiter's count it leaves, and the
\* calls made to the collaborators.
Raises(exception, store, n) ==
    [exception |-> exception, status |-> 0, error |-> "", twiml |-> Raised, reached |-> "",
     store |-> store, num_calls |-> n, calls |-> <<>>]

\* The route functions voice, process_intent, ..., user_address: BadRequest unless the
\* body is JSON, then the handler is imported and called with the request.
\* services.intent_handler defines no process_user_intent, so that import raises.
route_function(route, req, n, store, env) ==
    LET handler == RouteHandlers[route]
        form == request_form(req)
        r == CASE handler = "handle_call" -> handle_call(store, form, env)
               [] handler = "process_numeric_selection" -> process_numeric_selection(store, form, env)
               [] handler = "handle_booking" -> handle_booking(store, env)
               [] OTHER -> serve(handler, store, form, env)
    IN  IF ~is_json(req) THEN Raises("BadRequest", store, n)
        ELSE IF handler = "process_user_intent" THEN Raises("ImportError", store, n)
        ELSE [exception |-> IF r.resp.raised THEN "Exception" ELSE "",
              status |-> IF r.resp.raised THEN 0 ELSE 200,
              error |-> "", twiml |-> r.resp, reached |-> handler,
              store |-> r.store, num_calls |-> n, calls |-> r.calls]

\* handle_exceptions(f): BadRequest becomes a 400 answer, RateLimitException a 429
\* answer, any other exception is raised again as InternalServerError.
handle_exceptions(o) ==
    LET f == o
    IN  IF f.exception = "" THEN f
        ELSE IF f.exception = "BadRequest"
        THEN [f EXCEPT !.exception = "", !.status = 400,
                       !.error = "400 Bad Request: Request must be JSON"]
        ELSE IF f.exception = "RateLimitException"
        THEN [f EXCEPT !.exception = "", !.status = 429, !.error = "Rate limit exceeded"]
        ELSE [f EXCEPT !.exception = "InternalServerError"]

\* limits(calls=CALLS, period=PERIOD)(f): the call is counted; beyond CALLS calls in
\* the period it raises RateLimitException instead of calling f.
limits(n, store, o) ==
    IF n + 1 > CALLS THEN Raises("RateLimitException", store, n + 1)
    ELSE [o EXCEPT !.num_calls = n + 1]

\* A faulty variant of require_api_key, for testing that the authentication properties
\* tell it from require_api_key: it calls f whatever the key is.
require_api_key_unchecked(req, n, store, o) == o

\* require_api_key(f): Unauthorized unless the X-API-Key header holds the key.
require_api_key(req, n, store, o) ==
    IF req.api_key = "" \/ ~check_password_hash(req.api_key)
    THEN Raises("Unauthorized", store, n)
    ELSE o

\* The view function that app.route registers: the route function under its three
\* decorators, the first one listed being the outermost.
view_function(route, req, n, store, env) ==
    require_api_key(req, n, store,
        limits(n, store,
            handle_exceptions(route_function(route, req, n, store, env))))

\* Flask's dispatch: an HTTPException becomes the answer of its code, any other
\* exception the answer 500 (debug is off), a returned value the answer itself.
full_dispatch_request(o) ==
    LET rv == o
    IN  IF rv.exception = "" THEN rv
        ELSE IF rv.exception = "Unauthorized"
        THEN [rv EXCEPT !.exception = "", !.status = 401, !.error = "Invalid or missing API key"]
        ELSE [rv EXCEPT !.exception = "", !.status = 500, !.error = "Internal Server Error"]

\* What the renderer and the collaborators can do during a request.
HttpOutcomes(form) ==
    {[audio |-> audio, today |-> o.today, get |-> o.get, post |-> o.post,
      twilio |-> o.twilio, slot |-> o.slot] :
        audio \in AudioOutcomes, o \in Outcomes(form, SerialOutcomes)}

\* POST to a route. The bursts are on one route at a time: the periods of the other
\* routes' calls have elapsed.
Post(route) ==
    /\ turn = NoTurn
    /\ \A other \in Routes \ {route} : num_calls[other] = 0
    /\ \E req \in {q \in Requests : q.route = route} : \E env \in HttpOutcomes(request_form(req)) :
        \E o \in {full_dispatch_request(
                     view_function(route, req, num_calls[route], secure_session_data, env))} :
            /\ o.num_calls < CALLS + MaxExcess + 1
            /\ num_calls' = [num_calls EXCEPT ![route] = o.num_calls]
            /\ TurnEffect("app", req,
                   [store |-> o.store, calls |-> o.calls,
                    resp |-> [status |-> o.status, error |-> o.error, reached |-> o.reached,
                              twiml |-> o.twiml, hangup |-> o.twiml.hangup]])
            /\ UNCHANGED appointments

\* The period of a route's limiter elapses: its next call starts a new count.
PeriodElapses(route) ==
    /\ num_calls[route] > 0
    /\ num_calls' = [num_calls EXCEPT ![route] = 0]
    /\ UNCHANGED <<secure_session_data, bookings, available, turn, completed, race, appointments>>

HttpNext ==
    \/ \E route \in Routes : Post(route)
    \/ \E route \in Routes : PeriodElapses(route)
    \/ ReturnResponse

HttpSpec == Init /\ [][HttpNext]_vars

\* The request of the turn carried the key.
authorized(t) == t.form.api_key # "" /\ check_password_hash(t.form.api_key)

\* C34: an authorized request that exceeds the limit of CALLS calls in the period of
\* its route is answered with status 429 and the error "Rate limit exceeded".
C34_RateLimitAnswers429 ==
    [][(/\ turn = NoTurn
        /\ turn'.handler = "app"
        /\ authorized(turn')
        /\ num_calls[turn'.form.route] >= CALLS)
       => /\ turn'.resp.status = 429
          /\ turn'.resp.error = "Rate limit exceeded"]_vars

\* C35: a request without the valid key is answered with 401 on every route, before
\* the limiter counts it and without any dialogue handler running: the limiter's
\* counts and the session store stay as they were, and no availability check, no
\* appointment creation and no SMS is made.
C35_UnauthorizedNeverReachesHandlers ==
    [][(/\ turn = NoTurn
        /\ turn'.handler = "app"
        /\ ~authorized(turn'))
       => /\ turn'.resp.status = 401
          /\ turn'.resp.reached = ""
          /\ num_calls' = num_calls
          /\ secure_session_data' = secure_session_data
          /\ turn'.calls = <<>>]_vars

\* A request with a wrong key arrived on /capture-user-address while the limiter of
\* that route had counted CALLS calls, and it was answered with 401.
C35_Witness ==
    /\ turn.handler = "app"
    /\ turn.form.route = "/capture-user-address"
    /\ turn.form.api_key = "wrong-key"
    /\ turn.form.content_type = "application/json"
    /\ num_calls["/capture-user-address"] >= CALLS
    /\ turn.resp.status = 401

\* C36: a request that /capture-doctor-name accepts (its body is JSON) and that
\* carries a call identifier and a doctor name makes capture_doctor_name store the
\* session of that call with that doctor.
C36_AcceptedRequestCreatesSession ==
    [][(/\ turn = NoTurn
        /\ turn'.handler = "app"
        /\ turn'.form.route = "/capture-doctor-name"
        /\ turn'.resp.reached = "capture_doctor_name"
        /\ _sanitize_input(turn'.form.CallSid) # <<>>
        /\ _sanitize_input(turn'.form.SpeechResult) # <<>>)
       => /\ _sanitize_input(turn'.form.CallSid) \in DOMAIN secure_session_data'
          /\ secure_session_data'[_sanitize_input(turn'.form.CallSid)]
                = [doctor |-> _sanitize_input(turn'.form.SpeechResult)]]_vars

\* No request that arrives through the routes stores a session: the store stays empty.
NoSessionThroughRoutes == DOMAIN secure_session_data = {}

-----------------------------------------------------------------------------
(* ReceptionistAgent.validate_input on its own: guest data at and around    *)
(* the bounds of every field, and arguments that are no such dict.          *)

\* A string of n letters.
letters(n) == [i \in 1..n |-> "a"]

\* Names: none, below, at and above the length bounds, and one that is too short once
\* sanitized.
GuestNames ==
    {<<>>, <<"J">>, <<"J", "o">>, <<" ", "J", ";">>, letters(NameMaxLength), letters(NameMaxLength + 1)}

\* E-mail addresses: well formed, without @, without a dotted domain.
GuestEmails ==
    {<<"g", "u", "e", "s", "t", "@", "e", "x", "a", "m", "p", "l", "e", ".", "c", "o", "m">>,
     <<"g", "u", "e", "s", "t">>, <<"a", "@", "b">>}

\* Phone numbers: none, the shortest, with +, a leading 0, a line break that is left
\* by the sanitizer, the longest, and one digit more.
GuestPhones ==
    {<<>>, <<"1", "2">>, <<"+", "1", "2">>, <<"0", "1", "2">>, <<"1", "2", "\n", ";">>,
     <<"1">> \o [i \in 1..PhoneMaxFurtherDigits |-> "0"],
     <<"1">> \o [i \in 1..(PhoneMaxFurtherDigits + 1) |-> "0"]}

\* Purposes: below, at and above the length bounds.
GuestPurposes ==
    {<<"H", "i">>, letters(PurposeMinLength), letters(PurposeMaxLength), letters(PurposeMaxLength + 1)}

\* The arguments: a dict with the four fields, a dict without the phone, and a value
\* that is no dict.
ArgumentKinds == {"dict", "dict without phone", "not a dict"}

\* validate_input(guest_data) for an argument of any kind: the items() of a value that
\* is no dict raises AttributeError inside the try block, and the last except clause
\* returns None.
validate_input_call(kind, data) ==
    IF kind = "not a dict" THEN None
    ELSE IF kind = "dict without phone"
    THEN validate_input([key \in DOMAIN data \ {"phone"} |-> data[key]])
    ELSE validate_input(data)

\* validate_input(guest_data) is called.
ValidateInput ==
    /\ turn = NoTurn
    /\ \E kind \in ArgumentKinds :
       \E data \in [name : GuestNames, email : GuestEmails, phone : GuestPhones,
                     purpose : GuestPurposes] :
        turn' = [handler |-> "validate_input",
                 form |-> NoTurn.form,
                 call_sid |-> <<>>,
                 calls |-> <<[op |-> "validate_input", kind |-> kind, guest_data |-> data,
                              result |-> validate_input_call(kind, data)]>>,
                 resp |-> NoTurn.resp]
    /\ UNCHANGED <<secure_session_data, bookings, available, completed, race, appointments, num_calls>>

ValidateNext ==
    \/ ValidateInput
    \/ ReturnResponse

ValidateSpec == Init /\ [][ValidateNext]_vars

\* C37: validate_input returns None or a GuestInfo, never an exception; it returns a
\* GuestInfo only for a dict with all four fields whose sanitized name has 2 to 100
\* characters, whose e-mail is well formed, whose sanitized phone is an optional +, a
\* digit 1-9 and 1 to 14 further digits, and whose sanitized purpose has 5 to 200
\* characters; the GuestInfo holds the sanitized values.
C37_ValidateInputReturnsGuestOrNone ==
    turn.handler = "validate_input" =>
        LET call == turn.calls[1]
            clean(s) == remove_chars(strip(s), Unsafe)
            phone == clean(call.guest_data.phone)
            digits == IF phone # <<>> /\ phone[1] = "+" THEN Tail(phone) ELSE phone
        IN  call.result # None =>
                /\ call.kind = "dict"
                /\ Len(clean(call.guest_data.name)) \in 2..100
                /\ EmailStr(clean(call.guest_data.email))
                /\ Len(digits) \in 2..15
                /\ digits[1] \in {"1", "2", "3", "4", "5", "6", "7", "8", "9"}
                /\ \A i \in 2..Len(digits) : digits[i] \in Digits
                /\ Len(clean(call.guest_data.purpose)) \in 5..200
                /\ call.result = [name |-> clean(call.guest_data.name),
                                  email |-> clean(call.guest_data.email),
                                  phone |-> phone,
                                  purpose |-> clean(call.guest_data.purpose)]

\* A dict whose name, e-mail and purpose are accepted and whose phone keeps a line
\* break after sanitization was rejected with None.
C37_Witness ==
    /\ turn.handler = "validate_input"
    /\ turn.calls[1].kind = "dict"
    /\ turn.calls[1].guest_data.name = <<"J", "o">>
    /\ EmailStr(turn.calls[1].guest_data.email)
    /\ Len(turn.calls[1].guest_data.purpose) = PurposeMinLength
    /\ turn.calls[1].guest_data.phone = <<"1", "2", "\n", ";">>
    /\ turn.calls[1].result = None

====
